---- MODULE Spec2Model ----
(***************************************************************************)
(* Job execution engine of the coverage-improvement service:               *)
(*   - the ImprovementJob entity (immutable revisions, state machine),      *)
(*   - the persisted job table and ImprovementJobRepository.tryAcquireLock, *)
(*   - WorkerService.poll (one poll loop per worker instance),              *)
(*   - JobExecutor.executeJob (the six-stage pipeline).                     *)
(*                                                                         *)
(* Wall-clock timestamps inside log lines, lastLogAt and updatedAt are not *)
(* modelled; a log text is the sequence of its lines.                      *)
(***************************************************************************)
EXTENDS Integers, Sequences, FiniteSets, TLC

VARIABLES
    ent,        \* entity level: the current ImprovementJob revision
    entCall,    \* entity level: the last operation applied, its argument, whether it threw
    entPrev,    \* entity level: the revision the last operation was applied to
    store,      \* improvement_job table: row id -> persisted row, as toDomain reads it
    clock,      \* Date.now(), as a logical clock
    rowLock,    \* pessimistic_write row locks: job id -> holding worker (or NoWorker)
    isProcessing, \* WorkerService.isProcessing, per worker instance
    wpc,        \* position of each worker's poll()
    wqueue,     \* jobs fetched by the poll in flight and not yet iterated
    wtx,        \* tryAcquireLock in flight: fetched job, branch name, row read
    wres,       \* result of the worker's last finished tryAcquireLock
    exec,       \* executeJob in flight per job: position, local revisions, error
    fin,        \* executeJob calls that reached their finally block
    dbFaults,   \* updateJob calls that rejected so far
    ended,      \* per job: how executeJob calls have ended so far
    fs,         \* file system: resolved path of each directory -> modification time
    tracked,    \* TempDirectoryService.trackedDirectories
    fsFaults,   \* fs.rm calls that rejected so far
    hour,       \* Date.now() in whole hours since the service started
    tmpCall,    \* service level: the TempDirectoryService call of the last step
    proc,       \* the external command a supervisor runs, its timers and its outcome
    locks,      \* JobSerializer.locks: the entries <<repositoryId, LockToken>> of the Map
    serCall,    \* the JobSerializer call of the last step and how it returned
    reqCall,    \* the RequestImproveFileUseCase call of the last step and what it returned
    git,        \* LocalGitAdapter: currentRepoPath (the directory of this.git), where each
                \* pipeline stands in its git calls, and the git commands run so far
    polls,      \* one WorkerService timer: ticks so far, poll() calls in flight, the last
                \* poll() call that returned
    life        \* TempDirectoryService: cleanupInterval set, and onModuleDestroy: its
                \* position, the directories it found tracked, those still to clean

vars == <<ent, entCall, entPrev, store, clock, rowLock, isProcessing, wpc, wqueue,
          wtx, wres, exec, fin, dbFaults, ended, fs, tracked, fsFaults, hour, tmpCall, proc,
          locks, serCall, reqCall, git, polls, life>>

entVars == <<ent, entCall, entPrev>>
tmpVars == <<fs, tracked, fsFaults, hour, tmpCall>>
procVars == <<proc>>
serVars == <<locks, serCall>>
\* the components the job engine does not call
reqVars == <<reqCall>>
gitVars == <<git>>
pollVars == <<polls>>
lifeVars == <<life>>
otherVars == <<proc, locks, serCall, reqCall, git, polls, life>>
sysVars == <<store, clock, rowLock, isProcessing, wpc, wqueue, wtx, wres, exec, fin,
             dbFaults, ended, fs, tracked, fsFaults, hour, tmpCall, proc, locks, serCall,
             reqCall, git, polls, life>>

----------------------------------------------------------------------------
(* Bounds of the model *)

MaxJobs == 2            \* rows the job table may hold
MaxLogLines == 3        \* entity level: lines a log may reach
MaxAttemptCount == 3    \* entity level: attemptCount a revision may reach
MaxDbFaults == 1        \* updateJob calls that may reject in one behaviour
MaxFsFaults == 1        \* fs.rm calls that may reject in one behaviour

----------------------------------------------------------------------------
(* JobStatus and the values of nullable fields *)

PENDING == "PENDING"
RETRY == "RETRY"
RUNNING == "RUNNING"
SUCCEEDED == "SUCCEEDED"
FAILED == "FAILED"

JobStatus == {PENDING, RETRY, RUNNING, SUCCEEDED, FAILED}

\* null of a string field (branchName, prUrl); strings of these fields are tuples
Null == <<>>
\* null of a numeric field (coverageBefore, coverageAfter)
NullNum == 0 - 1

\* one line of the log text: "[ts] <text>", with the numbers the text carries
LogLine(text, msg, n, m) == <<text, msg, n, m>>

IsPrefix(s, t) == Len(s) <= Len(t) /\ SubSeq(t, 1, Len(s)) = s

----------------------------------------------------------------------------
(* ImprovementJob entity *)

\* constructor validation
validate(job) ==
    /\ job.id # ""
    /\ job.repositoryId # ""
    /\ job.filePath # <<>>
    /\ job.requestedBy # ""
    /\ job.status \in JobStatus
    /\ job.progress >= 0 /\ job.progress <= 100
    /\ job.attemptCount >= 0

\* result of an operation: a new revision, or a throw (this is left as it was)
Thrown(this, message) == [ok |-> FALSE, job |-> this, err |-> message]
Construct(this, job) ==
    IF validate(job) THEN [ok |-> TRUE, job |-> job, err |-> ""]
    ELSE Thrown(this, "ImprovementJob validation failed")

\* `logMessage ? logs + line : logs`
WithMessage(logs, logMessage) ==
    IF logMessage # "" THEN Append(logs, LogLine("msg", logMessage, 0, 0)) ELSE logs

create(id, repositoryId, filePath, requestedBy, now) ==
    [id |-> id, repositoryId |-> repositoryId, filePath |-> filePath,
     requestedBy |-> requestedBy, status |-> PENDING, progress |-> 0,
     branchName |-> Null, prUrl |-> Null, logs |-> <<>>,
     coverageBefore |-> NullNum, coverageAfter |-> NullNum,
     createdAt |-> now, attemptCount |-> 0]

\* start without its status check
start_unchecked(this, branchName) ==
    Construct(this,
        [this EXCEPT !.status = RUNNING, !.progress = 5, !.branchName = branchName,
                     !.logs = Append(@, LogLine("Job started (attempt n)", "",
                                                this.attemptCount + 1, 0)),
                     !.attemptCount = @ + 1])

start(this, branchName) ==
    IF this.status # PENDING /\ this.status # RETRY THEN Thrown(this, "Only PENDING or RETRY jobs can be started")
    ELSE Construct(this,
            [this EXCEPT !.status = RUNNING, !.progress = 5, !.branchName = branchName,
                         !.logs = Append(@, LogLine("Job started (attempt n)", "",
                                                    this.attemptCount + 1, 0)),
                         !.attemptCount = @ + 1])

\* updateProgress without its status check
updateProgress_unchecked(this, progress, logMessage) ==
    Construct(this,
        [this EXCEPT !.progress = progress, !.logs = WithMessage(@, logMessage)])

updateProgress(this, progress, logMessage) ==
    IF this.status # RUNNING THEN Thrown(this, "Only RUNNING jobs can have progress updated")
    ELSE Construct(this,
            [this EXCEPT !.progress = progress, !.logs = WithMessage(@, logMessage)])

succeed(this, prUrl, logMessage) ==
    IF this.status # RUNNING THEN Thrown(this, "Only RUNNING jobs can be marked as succeeded")
    ELSE Construct(this,
            [this EXCEPT !.status = SUCCEEDED, !.progress = 100, !.prUrl = prUrl,
                         !.logs = WithMessage(@, logMessage)])

fail(this, errorMessage) ==
    IF this.status # RUNNING /\ this.status # PENDING THEN Thrown(this, "Only RUNNING or PENDING jobs can be marked as failed")
    ELSE Construct(this,
            [this EXCEPT !.status = FAILED,
                         !.logs = Append(@, LogLine("ERROR", errorMessage, 0, 0))])

\* markForRetry giving up at once, as fail() does
markForRetry_fails(this, errorMessage, maxAttempts) ==
    IF this.status # RUNNING THEN Thrown(this, "Only RUNNING jobs can be marked for retry")
    ELSE Construct(this,
            [this EXCEPT !.status = FAILED,
                         !.attemptCount = this.attemptCount + 1,
                         !.logs = Append(@, LogLine("ERROR (attempt n/m)", errorMessage,
                                                    this.attemptCount + 1, maxAttempts))])

\* markForRetry giving up one attempt late (`>` for `>=`)
markForRetry_late(this, errorMessage, maxAttempts) ==
    IF this.status # RUNNING THEN Thrown(this, "Only RUNNING jobs can be marked for retry")
    ELSE LET newAttemptCount == this.attemptCount + 1
             newStatus == IF newAttemptCount > maxAttempts THEN FAILED ELSE RETRY
         IN  Construct(this,
                [this EXCEPT !.status = newStatus,
                             !.logs = Append(@, LogLine("ERROR (attempt n/m)", errorMessage,
                                                        newAttemptCount, maxAttempts)),
                             !.attemptCount = newAttemptCount])

markForRetry(this, errorMessage, maxAttempts) ==
    IF this.status # RUNNING THEN Thrown(this, "Only RUNNING jobs can be marked for retry")
    ELSE LET newAttemptCount == this.attemptCount + 1
             newStatus == IF newAttemptCount >= maxAttempts THEN FAILED ELSE RETRY
         IN  Construct(this,
                [this EXCEPT !.status = newStatus,
                             !.logs = Append(@, LogLine("ERROR (attempt n/m)", errorMessage,
                                                        newAttemptCount, maxAttempts)),
                             !.attemptCount = newAttemptCount])

\* retry that keeps the branch and the pull request of the failed attempt
retry_keepsBranch(this) ==
    IF this.status # FAILED THEN Thrown(this, "Only FAILED jobs can be retried")
    ELSE Construct(this,
            [this EXCEPT !.status = PENDING, !.progress = 0,
                         !.logs = Append(@, LogLine("Job retry requested", "", 0, 0)),
                         !.coverageBefore = NullNum, !.coverageAfter = NullNum])

retry(this) ==
    IF this.status # FAILED THEN Thrown(this, "Only FAILED jobs can be retried")
    ELSE Construct(this,
            [this EXCEPT !.status = PENDING, !.progress = 0, !.branchName = Null,
                         !.prUrl = Null,
                         !.logs = Append(@, LogLine("Job retry requested", "", 0, 0)),
                         !.coverageBefore = NullNum, !.coverageAfter = NullNum])

isTerminal(this) == this.status = SUCCEEDED \/ this.status = FAILED

\* canRetry that still allows a retry at the ceiling
canRetry_atCeiling(this, maxAttempts) ==
    this.status = FAILED /\ this.attemptCount <= maxAttempts

canRetry(this, maxAttempts) == this.status = FAILED /\ this.attemptCount < maxAttempts

\* ImprovementOrchestrator.shouldRetryJob
shouldRetryJob(job, maxAttempts) == canRetry(job, maxAttempts)

\* ImprovementOrchestrator.retryJob
retryJob(job, maxAttempts) ==
    IF ~shouldRetryJob(job, maxAttempts) THEN Thrown(job, "Job cannot be retried")
    ELSE retry(job)

appendLog(this, message) ==
    Construct(this, [this EXCEPT !.logs = Append(@, LogLine("msg", message, 0, 0))])

setPrUrl_logOnly(this, prUrl, logMessage) ==
    IF this.status # RUNNING THEN Thrown(this, "Only RUNNING jobs can have PR URL set")
    ELSE Construct(this, [this EXCEPT !.logs = WithMessage(@, logMessage)])

setPrUrl(this, prUrl, logMessage) ==
    IF this.status # RUNNING THEN Thrown(this, "Only RUNNING jobs can have PR URL set")
    ELSE Construct(this,
            [this EXCEPT !.prUrl = prUrl, !.logs = WithMessage(@, logMessage)])

setCoverage(this, coverageBefore, coverageAfter, logMessage) ==
    IF this.status # RUNNING THEN Thrown(this, "Only RUNNING jobs can have coverage set")
    ELSE Construct(this,
            [this EXCEPT !.coverageBefore = coverageBefore,
                         !.coverageAfter = coverageAfter,
                         !.logs = WithMessage(@, logMessage)])

----------------------------------------------------------------------------
(* Entity level: any sequence of ImprovementJob operations on one job *)

EntBranches == {<<"improve", <<"a", "-", "t", "s">>, 1>>, <<"improve", <<"a", "-", "t", "s">>, 2>>}
EntUrls == {<<"pr", 1>>, <<"pr", 2>>}
EntProgress == {0, 5, 50, 100, 101}
EntMessages == {"", "m"}
EntCoverage == {NullNum, 40}
MaxAttemptsValues == {1, 2, 3}

EntInit ==
    /\ ent = create("1", "r1", <<"a", ".", "t", "s">>, "u", 0)
    /\ entPrev = ent
    /\ entCall = [op |-> "create", arg |-> 0, thrown |-> FALSE]

\* the operation's result becomes the current revision; a throw leaves it
EntApply(op, arg, res) ==
    /\ res.ok => Len(res.job.logs) <= MaxLogLines
    /\ res.ok => res.job.attemptCount <= MaxAttemptCount
    /\ ent' = res.job
    /\ entPrev' = ent
    /\ entCall' = [op |-> op, arg |-> arg, thrown |-> ~res.ok]
    /\ UNCHANGED sysVars

EntStart == \E b \in EntBranches : EntApply("start", 0, start(ent, b))

EntUpdateProgress ==
    \E p \in EntProgress, m \in EntMessages :
        EntApply("updateProgress", p, updateProgress(ent, p, m))

EntSucceed ==
    \E u \in EntUrls, m \in EntMessages : EntApply("succeed", 0, succeed(ent, u, m))

EntFail == EntApply("fail", 0, fail(ent, "e"))

EntMarkForRetry ==
    \E n \in MaxAttemptsValues : EntApply("markForRetry", n, markForRetry(ent, "e", n))

EntRetry == EntApply("retry", 0, retry(ent))

EntAppendLog == EntApply("appendLog", 0, appendLog(ent, "m"))

EntSetPrUrl ==
    \E u \in EntUrls, m \in EntMessages : EntApply("setPrUrl", 0, setPrUrl(ent, u, m))

EntSetCoverage ==
    \E b \in EntCoverage, a \in EntCoverage, m \in EntMessages :
        EntApply("setCoverage", 0, setCoverage(ent, b, a, m))

EntNext ==
    \/ EntStart
    \/ EntUpdateProgress
    \/ EntSucceed
    \/ EntFail
    \/ EntMarkForRetry
    \/ EntRetry
    \/ EntAppendLog
    \/ EntSetPrUrl
    \/ EntSetCoverage

\* ImprovementOrchestrator.retryJob called with the current revision
EntRetryJob ==
    \E n \in MaxAttemptsValues : EntApply("retryJob", n, retryJob(ent, n))

\* the operations of a job together with the orchestrator's retryJob
NextRetry == EntNext \/ EntRetryJob

----------------------------------------------------------------------------
(* Persisted job table (ImprovementJobRepository) *)

Workers == {"w1", "w2"}
NoWorker == "none"
Repos == {"r1", "r2"}
FilePaths == {<<"s", "r", "c", "/", "A", ".", "t", "s">>}
JobSlots == 1..MaxJobs

\* the number NaN (no row id is negative)
NaN == 0 - 2

\* ids uuidv4() may return, shortened: two begin with the same decimal digit,
\* one begins with a letter
Uuids == {"1e0c", "2b9c", "2f2a", "a1c4"}

\* parseInt(id, 10): the leading decimal digits of the text, NaN if it has none;
\* the ids toDomain produces are row numbers in full
parseInt(id) ==
    CASE id = "1e0c" -> 1
      [] id \in {"2b9c", "2f2a"} -> 2
      [] id \in {"a1c4", "uuid"} -> NaN
      [] OTHER -> CHOOSE n \in 0..(MaxJobs + 1) : ToString(n) = id

Rows == DOMAIN store

\* toDomain: the row with entity.id.toString() as its id
toDomain(id, row) == [row EXCEPT !.id = ToString(id)]

\* the id the table generates for a row saved without one
GeneratedId(st) == IF DOMAIN st = {} THEN 1
                   ELSE (CHOOSE n \in DOMAIN st : \A k \in DOMAIN st : k <= n) + 1

\* a new row under the id
Inserted(st, id, row) ==
    IF DOMAIN st = 1..(id - 1) THEN Append(st, toDomain(id, row))
    ELSE (id :> toDomain(id, row)) @@ st

\* what repository.save does with an entity whose id is NaN
SaveOutcomes == {"generated", "rejected"}

\* repository.save(toEntity(job)): toEntity sets entity.id = parseInt(job.id, 10)
\* and copies every other field; save updates the row of that id if the table
\* has it and inserts a row otherwise
save(st, job, o) ==
    LET id == parseInt(job.id)
    IN  CASE id = NaN /\ o = "rejected" -> [ok |-> FALSE, store |-> st]
          [] id = NaN -> [ok |-> TRUE, store |-> Inserted(st, GeneratedId(st), job)]
          [] id \in DOMAIN st -> [ok |-> TRUE, store |-> [st EXCEPT ![id] = toDomain(id, job)]]
          [] OTHER -> [ok |-> TRUE, store |-> Inserted(st, id, job)]

\* createJob
createJob(st, job, o) == save(st, job, o)

\* updateJob: toEntity copies every field of the revision, save() writes the row
updateJob(st, job) == [st EXCEPT ![parseInt(job.id)] = job]

\* the result null of findOne
NoRow == [id |-> "null"]

\* getJob: the row whose id is parseInt(id, 10), as a domain revision
getJob(st, id) == IF parseInt(id) \in DOMAIN st THEN st[parseInt(id)] ELSE NoRow

RECURSIVE SortedIds(_, _)
\* ids of `ids` ordered by createdAt ascending (row number breaks ties)
SortedIds(st, ids) ==
    IF ids = {} THEN <<>>
    ELSE LET first == CHOOSE i \in ids :
                        \A k \in ids : \/ st[i].createdAt < st[k].createdAt
                                       \/ st[i].createdAt = st[k].createdAt /\ i <= k
         IN  <<first>> \o SortedIds(st, ids \ {first})

\* fetchExecutableJobs: PENDING or RETRY rows, oldest first, as domain revisions
fetchExecutableJobs(st) ==
    LET ids == {i \in DOMAIN st : st[i].status \in {PENDING, RETRY}}
        order == SortedIds(st, ids)
    IN  [k \in 1..Len(order) |-> st[order[k]]]

\* tryAcquireLock, first check: the row exists and is PENDING or RETRY
LockableRow(st, n) == n \in DOMAIN st /\ st[n].status \in {PENDING, RETRY}

\* tryAcquireLock, second check: some row of the repository is RUNNING
runningJob(st, repositoryId) ==
    \E k \in DOMAIN st : st[k].repositoryId = repositoryId /\ st[k].status = RUNNING

\* the update of tryAcquireLock without the attempt counter
AcquiredRow_noCount(job, branchName) ==
    [job EXCEPT !.status = RUNNING, !.branchName = branchName]

\* tryAcquireLock, the update of the row read under the lock
AcquiredRow(job, branchName) ==
    [job EXCEPT !.status = RUNNING, !.branchName = branchName, !.attemptCount = @ + 1]

\* tryAcquireLock run without any other database client in between
tryAcquireLock(st, jobId, branchName) ==
    LET n == parseInt(jobId)
    IN  IF ~LockableRow(st, n) THEN [ok |-> FALSE, store |-> st]
        ELSE IF runningJob(st, st[n].repositoryId) THEN [ok |-> FALSE, store |-> st]
        ELSE [ok |-> TRUE, store |-> [st EXCEPT ![n] = AcquiredRow(st[n], branchName)]]

----------------------------------------------------------------------------
(* Branch name synthesis of WorkerService.poll *)

LowerCase == <<"a", "b", "c", "d", "e", "f", "g", "h", "i", "j", "k", "l", "m",
               "n", "o", "p", "q", "r", "s", "t", "u", "v", "w", "x", "y", "z">>
UpperCase == <<"A", "B", "C", "D", "E", "F", "G", "H", "I", "J", "K", "L", "M",
               "N", "O", "P", "Q", "R", "S", "T", "U", "V", "W", "X", "Y", "Z">>
Digits == {"0", "1", "2", "3", "4", "5", "6", "7", "8", "9"}

IsAlphaNum(c) ==
    \/ c \in Digits
    \/ \E k \in 1..26 : c = LowerCase[k] \/ c = UpperCase[k]

toLowerCase(c) ==
    IF \E k \in 1..26 : c = UpperCase[k]
    THEN LowerCase[CHOOSE k \in 1..26 : c = UpperCase[k]]
    ELSE c

RECURSIVE CollapseDashes(_)
\* .replace(/-+/g, '-')
CollapseDashes(s) ==
    IF Len(s) < 2 THEN s
    ELSE IF s[1] = "-" /\ s[2] = "-" THEN CollapseDashes(Tail(s))
    ELSE <<s[1]>> \o CollapseDashes(Tail(s))

\* .replace(/^-|-$/g, '')
TrimDash(s) ==
    LET a == IF s # <<>> /\ s[1] = "-" THEN Tail(s) ELSE s
    IN  IF a # <<>> /\ a[Len(a)] = "-" THEN SubSeq(a, 1, Len(a) - 1) ELSE a

fileSlug(filePath) ==
    LET dashed == [k \in 1..Len(filePath) |->
                      IF IsAlphaNum(filePath[k]) THEN filePath[k] ELSE "-"]
        trimmed == TrimDash(CollapseDashes(dashed))
    IN  [k \in 1..Len(trimmed) |-> toLowerCase(trimmed[k])]

\* `improve/${fileSlug}-${timestamp}`
BranchNameFor(job, timestamp) == <<"improve", fileSlug(job.filePath), timestamp>>

----------------------------------------------------------------------------
(* File system and TempDirectoryService.  A path is the sequence of the       *)
(* pieces of its string ("/" is a piece of its own); a directory is known by   *)
(* its resolved path, the sequence of its names.  Only directories are kept,   *)
(* each with its modification time in hours.                                   *)

baseDir == <<"/", "tmp", "/", "coverage-improvement">>

\* String.prototype.startsWith
startsWith(s, prefix) == IsPrefix(prefix, s)

\* path.join(dir, name) for a plain name
join(dir, name) == dir \o <<"/", name>>

RECURSIVE SegmentsFrom(_, _, _)
\* `done`: the names split off so far, `cur`: the pieces of the name being read
SegmentsFrom(path, done, cur) ==
    IF path = <<>> THEN Append(done, cur)
    ELSE IF Head(path) = "/" THEN SegmentsFrom(Tail(path), Append(done, cur), <<>>)
    ELSE SegmentsFrom(Tail(path), done, Append(cur, Head(path)))

\* the path split at "/"; pieces that are not separated belong to one name
Segments(path) == SegmentsFrom(path, <<>>, <<>>)

RECURSIVE Normalize(_, _)
\* the names left when "", "." and ".." are resolved
Normalize(segs, acc) ==
    IF segs = <<>> THEN acc
    ELSE LET h == Head(segs)
         IN  IF h = <<>> \/ h = <<".">> THEN Normalize(Tail(segs), acc)
             ELSE IF h = <<"..">>
             THEN Normalize(Tail(segs),
                            IF acc = <<>> THEN acc ELSE SubSeq(acc, 1, Len(acc) - 1))
             ELSE Normalize(Tail(segs), Append(acc, h))

\* the directory a path names to the operating system
resolve(path) == Normalize(Segments(path), <<>>)

\* the resolved path lies in the directory `dir` or is `dir` itself
Within(p, dir) == IsPrefix(resolve(dir), p)

RECURSIVE Reachable(_, _, _)
\* the operating system can walk the path: ".." is taken from a directory that
\* exists, and the directory reached exists
Reachable(f, segs, acc) ==
    IF segs = <<>> THEN acc = <<>> \/ acc \in DOMAIN f
    ELSE LET h == Head(segs)
         IN  IF h = <<>> \/ h = <<".">> THEN Reachable(f, Tail(segs), acc)
             ELSE IF h = <<"..">>
             THEN /\ acc = <<>> \/ acc \in DOMAIN f
                  /\ Reachable(f, Tail(segs),
                               IF acc = <<>> THEN acc ELSE SubSeq(acc, 1, Len(acc) - 1))
             ELSE Reachable(f, Tail(segs), Append(acc, h))

\* fs.access(path) resolves: TempDirectoryService.exists
exists(f, path) == Reachable(f, Segments(path), <<>>)

\* fs.mkdir(path, {recursive: true}): the missing directories of the path are made
Made(f, made, now) == [d \in DOMAIN f \cup made |-> IF d \in made THEN now ELSE f[d]]
MkdirAll(f, p, now) == Made(f, {SubSeq(p, 1, k) : k \in 1..Len(p)} \ DOMAIN f, now)
mkdir(f, path, now) == MkdirAll(f, resolve(path), now)

\* the directories that are not `p` nor below it
Outside(f, p) == {e \in DOMAIN f : ~IsPrefix(p, e)}

\* fs.rm(path, {recursive: true, force: true}) resolves: the directory and all
\* below it are gone
RmTree(f, kept) == [d \in kept |-> f[d]]
rm(f, path) == RmTree(f, Outside(f, resolve(path)))

\* the names of the directories directly under the directory `base`
Children(f, base) ==
    {d[Len(d)] : d \in {e \in DOMAIN f : Len(e) = Len(base) + 1 /\ IsPrefix(base, e)}}

\* fs.readdir(baseDir): the names of the directories directly under the base
readdir(f) == Children(f, resolve(baseDir))

\* the path cleanupOld builds for an entry: path.join(baseDir, entry.name)
EntryPath(name) == baseDir \o <<"/">> \o name

\* the directory name create() builds: `${prefix}-${timestamp}-${random}`; `tag`
\* stands for the timestamp and the random suffix
DirName(prefix, tag) == prefix \o "-" \o ToString(tag)

\* outcomes of create(): ensureBaseDir rejects, fs.mkdir of the directory rejects
CreateOutcomes == {"ok", "baseFails", "mkdirFails"}

\* TempDirectoryService.create
tmpCreate(f, t, prefix, tag, now, o) ==
    LET tempDir == join(baseDir, DirName(prefix, tag))
        based == mkdir(f, baseDir, now)
    IN  CASE o = "baseFails" -> [ok |-> FALSE, fs |-> f, tracked |-> t, path |-> <<>>]
          [] o = "mkdirFails" -> [ok |-> FALSE, fs |-> based, tracked |-> t, path |-> <<>>]
          [] OTHER -> [ok |-> TRUE, fs |-> mkdir(based, tempDir, now),
                       tracked |-> t \cup {tempDir}, path |-> tempDir]

\* directories of other programs, none of them inside the base directory:
\* a sibling whose path string begins with the base path, one reached from the
\* base path through "..", and one elsewhere
siblingDir == baseDir \o <<"-old", "/", "keep">>
escapeDir == baseDir \o <<"/", "..", "/", "other">>
elsewhereDir == <<"/", "srv">>

\* the file system before the service starts (the base directory is not there)
InitialFs ==
    mkdir(mkdir(mkdir([d \in {} |-> 0], siblingDir, 0), <<"/", "tmp", "/", "other">>, 0),
          elsewhereDir, 0)

\* cleanup without the fs.rm call
cleanup_untrackOnly(f, t, tempDir, rmOk) ==
    IF tempDir = <<>> \/ ~startsWith(tempDir, baseDir)
    THEN [fs |-> f, tracked |-> t, failed |-> FALSE, threw |-> FALSE]
    ELSE IF ~exists(f, tempDir)
    THEN [fs |-> f, tracked |-> t \ {tempDir}, failed |-> FALSE, threw |-> FALSE]
    ELSE IF rmOk
    THEN [fs |-> f, tracked |-> t \ {tempDir}, failed |-> FALSE, threw |-> FALSE]
    ELSE [fs |-> f, tracked |-> t, failed |-> TRUE, threw |-> FALSE]

\* cleanup whose catch block rethrows
cleanup_rethrows(f, t, tempDir, rmOk) ==
    IF tempDir = <<>> \/ ~startsWith(tempDir, baseDir)
    THEN [fs |-> f, tracked |-> t, failed |-> FALSE, threw |-> FALSE]
    ELSE IF ~exists(f, tempDir)
    THEN [fs |-> f, tracked |-> t \ {tempDir}, failed |-> FALSE, threw |-> FALSE]
    ELSE IF rmOk
    THEN [fs |-> rm(f, tempDir), tracked |-> t \ {tempDir}, failed |-> FALSE, threw |-> FALSE]
    ELSE [fs |-> f, tracked |-> t, failed |-> TRUE, threw |-> TRUE]

\* TempDirectoryService.cleanup; rmOk: fs.rm resolves (a rejection is caught and
\* logged, not rethrown).  The result also tells whether fs.rm rejected and
\* whether the call threw.
cleanup(f, t, tempDir, rmOk) ==
    IF tempDir = <<>> \/ ~startsWith(tempDir, baseDir)
    THEN [fs |-> f, tracked |-> t, failed |-> FALSE, threw |-> FALSE]
    ELSE IF ~exists(f, tempDir)
    THEN [fs |-> f, tracked |-> t \ {tempDir}, failed |-> FALSE, threw |-> FALSE]
    ELSE IF rmOk
    THEN [fs |-> rm(f, tempDir), tracked |-> t \ {tempDir}, failed |-> FALSE, threw |-> FALSE]
    ELSE [fs |-> f, tracked |-> t, failed |-> TRUE, threw |-> FALSE]

\* cleanupOld that also cleans a directory whose age equals maxAgeHours
OldEntries_atLeast(f, now, maxAgeHours) ==
    {name \in readdir(f) : now - f[resolve(EntryPath(name))] >= maxAgeHours}

\* the entries cleanupOld cleans: directories whose age exceeds maxAgeHours
OldEntries(f, now, maxAgeHours) ==
    {name \in readdir(f) : now - f[resolve(EntryPath(name))] > maxAgeHours}

\* the outcome of cleanupOld so far, after the cleanup call `one` of an entry
After(acc, one) ==
    [fs |-> one.fs, tracked |-> one.tracked, failed |-> acc.failed \/ one.failed,
     threw |-> acc.threw \/ one.threw]

RECURSIVE cleanupEach(_, _, _)
\* `for (const entry of entries) ... await this.cleanup(dirPath)`; fs.rm rejects
\* for the entries in `failing`
cleanupEach(acc, names, failing) ==
    IF names = {} THEN acc
    ELSE LET name == CHOOSE x \in names : TRUE
         IN  cleanupEach(After(acc, cleanup(acc.fs, acc.tracked, EntryPath(name),
                                            name \notin failing)),
                         names \ {name}, failing)

\* TempDirectoryService.cleanupOld
cleanupOld(f, t, now, maxAgeHours, failing) ==
    IF ~exists(f, baseDir) THEN [fs |-> f, tracked |-> t, failed |-> FALSE, threw |-> FALSE]
    ELSE cleanupEach([fs |-> f, tracked |-> t, failed |-> FALSE, threw |-> FALSE],
                     OldEntries(f, now, maxAgeHours), failing)

----------------------------------------------------------------------------
(* Initial state *)

NoProc == [kind |-> "none"]
\* the working directory the process was started in
ProcessCwd == <<"/", "app">>

NoGit == [currentRepoPath |-> Null, at |-> <<>>, ops |-> {},
          cwd |-> ProcessCwd, stage |-> <<>>, originalCwd |-> <<>>, removed |-> {}]
NoPoll == [path |-> "none", tick |-> 0, fetched |-> <<>>, attempted |-> <<>>, threw |-> <<>>]
NoPolls == [ticks |-> 0, skipped |-> 0, live |-> {}, last |-> NoPoll]
\* the constructor has called startAutomaticCleanup (TEMP_CLEANUP_HOURS is 24)
Constructed ==
    [cleanupInterval |-> TRUE, destroy |-> "none", found |-> {}, pending |-> {},
     failed |-> {}, created |-> {}]
NoExec == [pc |-> <<"none", 0>>]
NoTx == [active |-> FALSE]
NoResult == [done |-> FALSE]

\* nothing polls, locks or executes
Quiet ==
    /\ clock = 0
    /\ rowLock = [n \in JobSlots |-> NoWorker]
    /\ isProcessing = [w \in Workers |-> FALSE]
    /\ wpc = [w \in Workers |-> "idle"]
    /\ wqueue = [w \in Workers |-> <<>>]
    /\ wtx = [w \in Workers |-> NoTx]
    /\ wres = [w \in Workers |-> NoResult]
    /\ exec = [n \in JobSlots |-> NoExec]
    /\ fin = {}
    /\ dbFaults = 0
    /\ ended = [n \in JobSlots |-> <<>>]
    /\ fs = InitialFs
    /\ tracked = {}
    /\ fsFaults = 0
    /\ hour = 0
    /\ tmpCall = [op |-> "none"]
    /\ proc = NoProc
    /\ locks = {}
    /\ serCall = [op |-> "none"]
    /\ reqCall = [op |-> "none"]
    /\ git = NoGit
    /\ polls = NoPolls
    /\ life = Constructed

SysInit == store = <<>> /\ Quiet

Init == EntInit /\ SysInit

----------------------------------------------------------------------------
(* Environment: RequestImproveFileUseCase.execute.  create() reads the time,    *)
(* `await createJob(job)` inserts the row later: the row of a request may be    *)
(* inserted after the row of a request that read the time after it.  Time      *)
(* passes while a request is served.  Followed here are the requests whose     *)
(* uuid has no leading digit and whose row the table stored under a generated  *)
(* id; SpecReq follows every request.                                          *)

RequestImproveFile ==
    \E r \in Repos, f \in FilePaths, createdAt \in 0..(clock + 1) :
        /\ Len(store) < MaxJobs
        /\ store' = createJob(store, create("uuid", r, f, "u", createdAt), "generated").store
        /\ clock' = clock + 1
        /\ UNCHANGED <<rowLock, isProcessing, wpc, wqueue, wtx, wres, exec, fin, dbFaults, ended>>
        /\ UNCHANGED entVars
        /\ UNCHANGED otherVars
        /\ UNCHANGED tmpVars

----------------------------------------------------------------------------
(* JobExecutor.executeJob: the call itself (runs up to its first await) *)

MAX_ATTEMPTS == 3

\* the execution executeJob(job) starts with; run numbers the execution
NewExec(job, run) ==
    [pc |-> <<"create", 1>>, job |-> job, updatedJob |-> job, err |-> "", at |-> "",
     tmpDir |-> Null, cov |-> NullNum, run |-> run]

\* WorkerService.poll hands executeJob the revision fetched before the lock
PollHandoff(fetched, st) == fetched

----------------------------------------------------------------------------
(* WorkerService.poll, one per worker instance *)

\* transactions of other workers that are in flight
OpenTx(w) == {v \in Workers \ {w} : wtx[v].active}

\* poll(): skip guard, fetchExecutableJobs, empty list returns (finally clears the flag)
PollStart(w) ==
    /\ wpc[w] = "idle"
    /\ ~isProcessing[w]
    /\ LET jobs == fetchExecutableJobs(store)
       IN  IF Len(jobs) = 0
           THEN UNCHANGED <<isProcessing, wpc, wqueue>>
           ELSE /\ isProcessing' = [isProcessing EXCEPT ![w] = TRUE]
                /\ wpc' = [wpc EXCEPT ![w] = "loop"]
                /\ wqueue' = [wqueue EXCEPT ![w] = jobs]
    /\ UNCHANGED <<store, clock, rowLock, wtx, wres, exec, fin, dbFaults, ended>>
    /\ UNCHANGED entVars
    /\ UNCHANGED otherVars
    /\ UNCHANGED tmpVars

\* for (const job of jobs): branch name, tryAcquireLock is called; after the last
\* job the finally block clears isProcessing
PollNextJob(w) ==
    /\ wpc[w] = "loop"
    /\ IF wqueue[w] = <<>>
       THEN /\ isProcessing' = [isProcessing EXCEPT ![w] = FALSE]
            /\ wpc' = [wpc EXCEPT ![w] = "idle"]
            /\ wres' = [wres EXCEPT ![w] = NoResult]
            /\ UNCHANGED <<wqueue, wtx>>
       ELSE LET job == Head(wqueue[w])
            IN  /\ wtx' = [v \in Workers |->
                             IF v = w
                             THEN [active |-> TRUE, job |-> job,
                                   branchName |-> BranchNameFor(job, clock),
                                   row |-> job, overlapped |-> OpenTx(w),
                                   idle |-> /\ LockableRow(store, parseInt(job.id))
                                            /\ ~runningJob(store, job.repositoryId)]
                             ELSE IF wtx[v].active
                                  THEN [wtx[v] EXCEPT !.overlapped = @ \cup {w}]
                                  ELSE wtx[v]]
                /\ wqueue' = [wqueue EXCEPT ![w] = Tail(@)]
                /\ wres' = [wres EXCEPT ![w] = NoResult]
                /\ wpc' = [wpc EXCEPT ![w] = "txRead"]
                /\ UNCHANGED isProcessing
    /\ UNCHANGED <<store, clock, rowLock, exec, fin, dbFaults, ended>>
    /\ UNCHANGED entVars
    /\ UNCHANGED otherVars
    /\ UNCHANGED tmpVars

\* tryAcquireLock returns `ok` to the poll loop
TxResult(w, ok) ==
    [done |-> TRUE, ok |-> ok, jobId |-> wtx[w].job.id,
     repositoryId |-> wtx[w].job.repositoryId,
     overlapped |-> wtx[w].overlapped, idle |-> wtx[w].idle]

\* findOne(job, lock: pessimistic_write): waits for the row lock; a missing or
\* not executable job rolls back and returns false
TxRead(w) ==
    LET n == parseInt(wtx[w].job.id)
    IN  /\ wpc[w] = "txRead"
        /\ n \in Rows => rowLock[n] = NoWorker
        /\ IF LockableRow(store, n)
           THEN /\ rowLock' = [rowLock EXCEPT ![n] = w]
                /\ wtx' = [wtx EXCEPT ![w].row = store[n]]
                /\ wpc' = [wpc EXCEPT ![w] = "txCheck"]
                /\ UNCHANGED wres
           ELSE /\ wres' = [wres EXCEPT ![w] = TxResult(w, FALSE)]
                /\ wtx' = [wtx EXCEPT ![w] = NoTx]
                /\ wpc' = [wpc EXCEPT ![w] = "loop"]
                /\ UNCHANGED rowLock
        /\ UNCHANGED <<store, clock, isProcessing, wqueue, exec, fin, dbFaults, ended>>
        /\ UNCHANGED entVars
        /\ UNCHANGED otherVars
        /\ UNCHANGED tmpVars

\* findOne(repositoryId, status RUNNING): a RUNNING job rolls back and returns false
TxCheck(w) ==
    LET n == parseInt(wtx[w].job.id)
    IN  /\ wpc[w] = "txCheck"
        /\ IF runningJob(store, wtx[w].row.repositoryId)
           THEN /\ rowLock' = [rowLock EXCEPT ![n] = NoWorker]
                /\ wres' = [wres EXCEPT ![w] = TxResult(w, FALSE)]
                /\ wtx' = [wtx EXCEPT ![w] = NoTx]
                /\ wpc' = [wpc EXCEPT ![w] = "loop"]
           ELSE /\ wpc' = [wpc EXCEPT ![w] = "txWrite"]
                /\ UNCHANGED <<rowLock, wres, wtx>>
        /\ UNCHANGED <<store, clock, isProcessing, wqueue, exec, fin, dbFaults, ended>>
        /\ UNCHANGED entVars
        /\ UNCHANGED otherVars
        /\ UNCHANGED tmpVars

\* save(job), commit, return true; the poll loop then calls executeJob(job)
TxWrite(w) ==
    LET n == parseInt(wtx[w].job.id)
        st == [store EXCEPT ![n] = AcquiredRow(wtx[w].row, wtx[w].branchName)]
    IN  /\ wpc[w] = "txWrite"
        /\ store' = st
        /\ rowLock' = [rowLock EXCEPT ![n] = NoWorker]
        /\ wres' = [wres EXCEPT ![w] = TxResult(w, TRUE)]
        /\ exec' = [exec EXCEPT
                       ![n] = NewExec(PollHandoff(wtx[w].job, st), st[n].attemptCount)]
        /\ wtx' = [wtx EXCEPT ![w] = NoTx]
        /\ wpc' = [wpc EXCEPT ![w] = "loop"]
        /\ UNCHANGED <<clock, isProcessing, wqueue, fin, dbFaults, ended>>
        /\ UNCHANGED entVars
        /\ UNCHANGED otherVars
        /\ UNCHANGED tmpVars

----------------------------------------------------------------------------
(* JobExecutor.executeJob: the pipeline.  exec[n].job is executeJob's variable   *)
(* `job` (the revision the last finished stage returned), exec[n].updatedJob    *)
(* the variable `updatedJob` of the stage in progress.  Every step is one       *)
(* awaited call together with the synchronous code that follows it.            *)

CoveragePercents == {40}
Outcomes == {"ok", "throws"}

\* fs.rm resolves (TRUE), or rejects while the fault budget lasts
RmOutcomes == IF fsFaults < MaxFsFaults THEN {TRUE, FALSE} ELSE {TRUE}

\* outcomes of an updateJob call: it may reject while the fault budget lasts
DbOutcomes == IF dbFaults < MaxDbFaults THEN {"ok", "throws"} ELSE {"ok"}

InStage(n, stage) == exec[n].pc[1] = stage
Step(n) == exec[n].pc[2]

\* an error reaches the catch block of executeJob
Raise(n, stage, message) ==
    [exec EXCEPT ![n].pc = <<"catch", 0>>, ![n].err = message, ![n].at = stage]

\* a step that throws before it calls updateJob
Throw(n, stage, message, db) ==
    /\ db = "ok"
    /\ exec' = Raise(n, stage, message)
    /\ UNCHANGED <<store, dbFaults>>

\* `await updateJob(job)` rejects
DbThrow(n, stage) ==
    /\ exec' = Raise(n, stage, "updateJob failed")
    /\ dbFaults' = dbFaults + 1
    /\ UNCHANGED store

Persist_notAwaited(n, stage, res, db, next) ==
    IF ~res.ok THEN Throw(n, stage, res.err, db)
    ELSE IF db = "throws" THEN DbThrow(n, stage)
    ELSE /\ exec' = [exec EXCEPT ![n].updatedJob = res.job, ![n].pc = next]
         /\ UNCHANGED <<store, dbFaults>>

\* `updatedJob = <op>; await updateJob(updatedJob)`, then on to `next`
Persist(n, stage, res, db, next) ==
    IF ~res.ok THEN Throw(n, stage, res.err, db)
    ELSE IF db = "throws" THEN DbThrow(n, stage)
    ELSE /\ store' = updateJob(store, res.job)
         /\ exec' = [exec EXCEPT ![n].updatedJob = res.job, ![n].pc = next]
         /\ UNCHANGED dbFaults

\* the same as the last statement of a stage: `return updatedJob` into `job`
PersistReturn(n, stage, res, db, next) ==
    IF ~res.ok THEN Throw(n, stage, res.err, db)
    ELSE IF db = "throws" THEN DbThrow(n, stage)
    ELSE /\ store' = updateJob(store, res.job)
         /\ exec' = [exec EXCEPT ![n].updatedJob = res.job, ![n].job = res.job,
                                 ![n].pc = next]
         /\ UNCHANGED dbFaults

ExecFrame == UNCHANGED <<clock, rowLock, isProcessing, wpc, wqueue, wtx, wres>>

\* what is recorded when an executeJob call leaves its try/catch
Ending(n, outcome, at, st) ==
    [outcome |-> outcome, at |-> at, run |-> exec[n].run, status |-> st[n].status,
     attemptCount |-> st[n].attemptCount, progress |-> st[n].progress,
     prUrl |-> st[n].prUrl, err |-> exec[n].err,
     errorLogged |-> /\ st[n].logs # <<>>
                     /\ st[n].logs[Len(st[n].logs)][1] = "ERROR (attempt n/m)"
                     /\ st[n].logs[Len(st[n].logs)][2] = exec[n].err]

\* tempDirService.create: outside the try block, a throw rejects executeJob
ExecCreateTmp(n) ==
    /\ InStage(n, "create")
    /\ \E o \in CreateOutcomes :
        \E res \in {tmpCreate(fs, tracked, "job-" \o exec[n].job.id, exec[n].run, hour, o)} :
            /\ fs' = res.fs
            /\ tracked' = res.tracked
            /\ IF res.ok
               THEN /\ exec' = [exec EXCEPT ![n].pc = <<"findRepo", 1>>,
                                            ![n].tmpDir = res.path]
                    /\ UNCHANGED ended
               ELSE /\ exec' = [exec EXCEPT ![n] = NoExec]
                    /\ ended' = [ended EXCEPT
                                    ![n] = Append(@, Ending(n, "rejected", "create", store))]
    /\ UNCHANGED <<store, fin, dbFaults, fsFaults, hour, tmpCall>>
    /\ ExecFrame
    /\ UNCHANGED entVars
    /\ UNCHANGED otherVars

\* repoRepo.findById
ExecFindRepository(n) ==
    /\ InStage(n, "findRepo")
    /\ \E o \in {"found", "null", "throws"} :
        exec' = CASE o = "found" -> [exec EXCEPT ![n].pc = <<"clone", 1>>]
                  [] o = "null" -> Raise(n, "findRepo", "Repository not found")
                  [] OTHER -> Raise(n, "findRepo", "findById failed")
    /\ UNCHANGED <<store, fin, ended, dbFaults>>
    /\ ExecFrame
    /\ UNCHANGED entVars
    /\ UNCHANGED otherVars
    /\ UNCHANGED tmpVars

\* Step 1: cloneRepository
CloneRepository(n) ==
    /\ InStage(n, "clone")
    /\ \E o \in Outcomes, db \in DbOutcomes :
        CASE Step(n) = 1 ->
                /\ o = "ok"
                /\ Persist(n, "clone",
                           updateProgress(exec[n].job, 5, "Cloning repository..."),
                           db, <<"clone", 2>>)
          [] OTHER ->
                IF o = "throws"
                THEN Throw(n, "clone", "cloneRepo failed", db)
                ELSE PersistReturn(n, "clone",
                        appendLog(exec[n].updatedJob, "Repository cloned successfully"),
                        db, <<"baseline", 1>>)
    /\ UNCHANGED <<fin, ended>>
    /\ ExecFrame
    /\ UNCHANGED entVars
    /\ UNCHANGED otherVars
    /\ UNCHANGED tmpVars

CoverageRun_rethrows(n, stage, foundLine, absentLine, failedLine, o, c, db) ==
    LET upd == exec[n].updatedJob
        line == IF o = "found" THEN foundLine ELSE absentLine
        res == appendLog(upd, line)
        cov == IF o = "found" THEN c ELSE NullNum
    IN  IF o = "throws"
        THEN Throw(n, stage, failedLine, db)
        ELSE IF db = "throws"
        THEN /\ exec' = [exec EXCEPT
                            ![n].updatedJob = appendLog(res.job, failedLine).job,
                            ![n].cov = cov, ![n].pc = <<stage, 3>>]
             /\ dbFaults' = dbFaults + 1
             /\ UNCHANGED store
        ELSE /\ store' = updateJob(store, res.job)
             /\ exec' = [exec EXCEPT ![n].updatedJob = res.job, ![n].cov = cov,
                                     ![n].pc = <<stage, 4>>]
             /\ UNCHANGED dbFaults

\* the coverage run of a best-effort stage: runCoverage + parseCoverageSummary,
\* the log line of the try block and its updateJob; a throw (of the run or of
\* that updateJob) is caught, and the catch block appends its line
CoverageRun(n, stage, foundLine, absentLine, failedLine, o, c, db) ==
    LET upd == exec[n].updatedJob
        line == IF o = "found" THEN foundLine ELSE absentLine
        res == appendLog(upd, line)
        cov == IF o = "found" THEN c ELSE NullNum
    IN  IF o = "throws"
        THEN /\ db = "ok"
             /\ exec' = [exec EXCEPT ![n].updatedJob = appendLog(upd, failedLine).job,
                                     ![n].pc = <<stage, 3>>]
             /\ UNCHANGED <<store, dbFaults>>
        ELSE IF db = "throws"
        THEN /\ exec' = [exec EXCEPT
                            ![n].updatedJob = appendLog(res.job, failedLine).job,
                            ![n].cov = cov, ![n].pc = <<stage, 3>>]
             /\ dbFaults' = dbFaults + 1
             /\ UNCHANGED store
        ELSE /\ store' = updateJob(store, res.job)
             /\ exec' = [exec EXCEPT ![n].updatedJob = res.job, ![n].cov = cov,
                                     ![n].pc = <<stage, 4>>]
             /\ UNCHANGED dbFaults

\* the updateJob of the catch block of a best-effort stage
CoverageCatchWrite(n, stage, db) ==
    IF db = "throws"
    THEN DbThrow(n, stage)
    ELSE /\ store' = updateJob(store, exec[n].updatedJob)
         /\ exec' = [exec EXCEPT ![n].pc = <<stage, 4>>]
         /\ UNCHANGED dbFaults

\* `if (coverage !== null) { setCoverage; updateJob }  return updatedJob`
CoverageStore(n, stage, before, after, db, next) ==
    IF exec[n].cov = NullNum
    THEN /\ db = "ok"
         /\ exec' = [exec EXCEPT ![n].job = exec[n].updatedJob, ![n].pc = next]
         /\ UNCHANGED <<store, dbFaults>>
    ELSE PersistReturn(n, stage, setCoverage(exec[n].updatedJob, before, after, ""),
                       db, next)

\* Step 2: runBaselineCoverage
RunBaselineCoverage(n) ==
    /\ InStage(n, "baseline")
    /\ \E o \in {"found", "absent", "throws"}, c \in CoveragePercents, db \in DbOutcomes :
        CASE Step(n) = 1 ->
                /\ o = "found"
                /\ Persist(n, "baseline",
                           updateProgress(exec[n].job, 25, "Running baseline coverage..."),
                           db, <<"baseline", 2>>)
          [] Step(n) = 2 ->
                CoverageRun(n, "baseline", "Baseline coverage for file",
                            "Baseline coverage captured (target file not in coverage report)",
                            "Baseline coverage failed (may be no existing tests)", o, c, db)
          [] Step(n) = 3 -> o = "found" /\ CoverageCatchWrite(n, "baseline", db)
          [] OTHER ->
                /\ o = "found"
                /\ CoverageStore(n, "baseline", exec[n].cov, NullNum, db, <<"generate", 1>>)
    /\ UNCHANGED <<fin, ended>>
    /\ ExecFrame
    /\ UNCHANGED entVars
    /\ UNCHANGED otherVars
    /\ UNCHANGED tmpVars

\* Step 3: generateTests
GenerateTests(n) ==
    /\ InStage(n, "generate")
    /\ \E o \in {"changes", "nochanges", "failed", "throws"}, db \in DbOutcomes :
        CASE Step(n) = 1 ->
                /\ o = "changes"
                /\ Persist(n, "generate",
                           updateProgress(exec[n].job, 50, "Generating tests with AI..."),
                           db, <<"generate", 2>>)
          [] Step(n) = 2 ->
                CASE o = "throws" -> Throw(n, "generate", "gatherContextFiles failed", db)
                  [] o = "changes" ->
                        Persist(n, "generate",
                                appendLog(exec[n].updatedJob, "Running AI CLI"),
                                db, <<"generate", 3>>)
                  [] OTHER -> FALSE
          [] OTHER ->
                CASE o = "throws" -> Throw(n, "generate", "generateTests failed", db)
                  [] o = "failed" -> Throw(n, "generate", "AI test generation failed", db)
                  [] o = "nochanges" ->
                        Throw(n, "generate", "AI did not generate any test files", db)
                  [] OTHER ->
                        PersistReturn(n, "generate",
                            appendLog(exec[n].updatedJob, "AI generated tests"),
                            db, <<"verify", 1>>)
    /\ UNCHANGED <<fin, ended>>
    /\ ExecFrame
    /\ UNCHANGED entVars
    /\ UNCHANGED otherVars
    /\ UNCHANGED tmpVars

\* Step 4: verifyTests
VerifyTests(n) ==
    /\ InStage(n, "verify")
    /\ \E o \in {"found", "absent", "throws"}, c \in CoveragePercents, db \in DbOutcomes :
        CASE Step(n) = 1 ->
                /\ o = "found"
                /\ Persist(n, "verify",
                           updateProgress(exec[n].job, 75, "Verifying tests..."),
                           db, <<"verify", 2>>)
          [] Step(n) = 2 ->
                CoverageRun(n, "verify", "New coverage for file",
                            "Tests verified (coverage report generated)",
                            "Test verification warning (will create draft PR)", o, c, db)
          [] Step(n) = 3 -> o = "found" /\ CoverageCatchWrite(n, "verify", db)
          [] OTHER ->
                /\ o = "found"
                /\ CoverageStore(n, "verify", exec[n].job.coverageBefore, exec[n].cov, db,
                                 <<"commit", 1>>)
    /\ UNCHANGED <<fin, ended>>
    /\ ExecFrame
    /\ UNCHANGED entVars
    /\ UNCHANGED otherVars
    /\ UNCHANGED tmpVars

\* Step 5: commitAndPush
CommitAndPush(n) ==
    /\ InStage(n, "commit")
    /\ \E o \in Outcomes, db \in DbOutcomes :
        CASE Step(n) = 1 ->
                /\ o = "ok"
                /\ Persist(n, "commit",
                           updateProgress(exec[n].job, 90, "Committing changes..."),
                           db, <<"commit", 2>>)
          [] Step(n) = 2 ->
                IF exec[n].job.branchName = Null
                THEN o = "ok" /\ Throw(n, "commit", "Branch name not set", db)
                ELSE IF o = "throws"
                THEN Throw(n, "commit", "checkout or commit failed", db)
                ELSE Persist(n, "commit", appendLog(exec[n].updatedJob, "Changes committed"),
                             db, <<"commit", 3>>)
          [] OTHER ->
                IF o = "throws"
                THEN Throw(n, "commit", "push failed", db)
                ELSE PersistReturn(n, "commit",
                        appendLog(exec[n].updatedJob, "Changes pushed to branch"),
                        db, <<"pullRequest", 1>>)
    /\ UNCHANGED <<fin, ended>>
    /\ ExecFrame
    /\ UNCHANGED entVars
    /\ UNCHANGED otherVars
    /\ UNCHANGED tmpVars

\* the url of the pull request createPullRequest opened: a new one per call
PullRequestUrl(n) == <<"pr", n, exec[n].run>>

\* Step 6: createPullRequest
CreatePullRequest(n) ==
    /\ InStage(n, "pullRequest")
    /\ \E o \in Outcomes, db \in DbOutcomes :
        CASE Step(n) = 1 ->
                /\ o = "ok"
                /\ Persist(n, "pullRequest",
                           appendLog(exec[n].job, "Creating pull request..."),
                           db, <<"pullRequest", 2>>)
                /\ UNCHANGED <<fin, ended>>
          [] Step(n) = 2 ->
                /\ IF o = "throws"
                   THEN Throw(n, "pullRequest", "createPullRequest failed", db)
                   ELSE Persist(n, "pullRequest",
                                setPrUrl(exec[n].updatedJob, PullRequestUrl(n),
                                         "Pull request created"),
                                db, <<"pullRequest", 3>>)
                /\ UNCHANGED <<fin, ended>>
          [] OTHER ->
                LET res == succeed(exec[n].updatedJob, PullRequestUrl(n),
                                   "Job completed successfully")
                IN  /\ o = "ok"
                    /\ IF res.ok /\ db = "ok"
                       THEN /\ store' = updateJob(store, res.job)
                            /\ exec' = [exec EXCEPT ![n] = NoExec]
                            /\ fin' = fin \cup {[job |-> n, run |-> exec[n].run,
                                                 tmpDir |-> exec[n].tmpDir]}
                            /\ ended' = [ended EXCEPT ![n] =
                                            Append(@, Ending(n, "succeeded", "", store'))]
                            /\ UNCHANGED dbFaults
                       ELSE /\ Persist(n, "pullRequest", res, db, <<"pullRequest", 3>>)
                            /\ UNCHANGED <<fin, ended>>
    /\ ExecFrame
    /\ UNCHANGED entVars
    /\ UNCHANGED otherVars
    /\ UNCHANGED tmpVars

\* catch (error): markForRetry(error.message, MAX_ATTEMPTS), updateJob; a throw of
\* either leaves the catch block and rejects executeJob
ExecCatch(n) ==
    /\ InStage(n, "catch")
    /\ \E db \in DbOutcomes :
        LET res == markForRetry(exec[n].job, exec[n].err, MAX_ATTEMPTS)
            handled == res.ok /\ db = "ok"
        IN  /\ ~res.ok => db = "ok"
            /\ store' = IF handled THEN updateJob(store, res.job) ELSE store
            /\ dbFaults' = IF db = "throws" THEN dbFaults + 1 ELSE dbFaults
            /\ ended' = [ended EXCEPT ![n] =
                            Append(@, Ending(n, IF handled THEN "handled" ELSE "rejected",
                                             exec[n].at, store'))]
    /\ fin' = fin \cup {[job |-> n, run |-> exec[n].run, tmpDir |-> exec[n].tmpDir]}
    /\ exec' = [exec EXCEPT ![n] = NoExec]
    /\ ExecFrame
    /\ UNCHANGED entVars
    /\ UNCHANGED otherVars
    /\ UNCHANGED tmpVars

\* finally: tempDirService.cleanup(tmpDir)
ExecFinally ==
    /\ \E f \in fin, rmOk \in RmOutcomes :
        \E res \in {cleanup(fs, tracked, f.tmpDir, rmOk)} :
            /\ ~rmOk => res.failed
            /\ fin' = fin \ {f}
            /\ fs' = res.fs
            /\ tracked' = res.tracked
            /\ fsFaults' = IF res.failed THEN fsFaults + 1 ELSE fsFaults
    /\ UNCHANGED <<store, exec, ended, dbFaults, hour, tmpCall>>
    /\ ExecFrame
    /\ UNCHANGED entVars
    /\ UNCHANGED otherVars

----------------------------------------------------------------------------
(* Spec: the service as wired -- worker instances polling one job table.       *)
(* executeJob receives the revision fetched before the lock (status PENDING or *)
(* RETRY), so cloneRepository's updateProgress throws and the later stages are *)
(* never entered under Spec; SpecExec below runs them.                          *)

Next ==
    \/ RequestImproveFile
    \/ \E w \in Workers : PollStart(w)
    \/ \E w \in Workers : PollNextJob(w)
    \/ \E w \in Workers : TxRead(w)
    \/ \E w \in Workers : TxCheck(w)
    \/ \E w \in Workers : TxWrite(w)
    \/ \E n \in JobSlots : ExecCreateTmp(n)
    \/ \E n \in JobSlots : ExecFindRepository(n)
    \/ \E n \in JobSlots : CloneRepository(n)
    \/ \E n \in JobSlots : ExecCatch(n)
    \/ ExecFinally

Spec == Init /\ [][Next]_vars

----------------------------------------------------------------------------
(* SpecLock: the job table, the requests and the poll loops of the worker      *)
(* instances with their tryAcquireLock transactions; the dispatched executions *)
(* are left where executeJob starts (under Spec they never write the table).    *)

NextLock ==
    \/ RequestImproveFile
    \/ \E w \in Workers : PollStart(w)
    \/ \E w \in Workers : PollNextJob(w)
    \/ \E w \in Workers : TxRead(w)
    \/ \E w \in Workers : TxCheck(w)
    \/ \E w \in Workers : TxWrite(w)

SpecLock == Init /\ [][NextLock]_vars

----------------------------------------------------------------------------
(* SpecJob: any sequence of ImprovementJob operations on one job *)

SpecJob == Init /\ [][EntNext]_vars

SpecRetry == Init /\ [][NextRetry]_vars

----------------------------------------------------------------------------
(* SpecExec: one job and one caller of the repository and of the executor: it  *)
(* runs tryAcquireLock to completion (time passes between two calls) and calls  *)
(* executeJob either with the                                                   *)
(* revision fetched before the lock (as WorkerService.poll does) or with the   *)
(* row as the lock persisted it (getJob after the lock).                        *)

Handoffs == {"fetched", "locked"}

InitExec ==
    /\ EntInit
    /\ Quiet
    /\ store = createJob(<<>>, create("uuid", "r1", <<"s", "r", "c", "/", "A", ".", "t", "s">>,
                                      "u", 0), "generated").store

CallerRun ==
    \E n \in Rows, h \in Handoffs :
        LET fetched == store[n]
            res == tryAcquireLock(store, fetched.id, BranchNameFor(fetched, clock))
        IN  /\ res.ok
            /\ store' = res.store
            /\ exec' = [exec EXCEPT
                           ![n] = NewExec(IF h = "fetched" THEN fetched ELSE res.store[n],
                                          res.store[n].attemptCount)]
            /\ clock' = clock + 1
            /\ UNCHANGED <<rowLock, isProcessing, wpc, wqueue, wtx, wres, fin, dbFaults, ended>>
            /\ UNCHANGED entVars
            /\ UNCHANGED otherVars
            /\ UNCHANGED tmpVars

NextExec ==
    \/ CallerRun
    \/ \E n \in JobSlots : ExecCreateTmp(n)
    \/ \E n \in JobSlots : ExecFindRepository(n)
    \/ \E n \in JobSlots : CloneRepository(n)
    \/ \E n \in JobSlots : RunBaselineCoverage(n)
    \/ \E n \in JobSlots : GenerateTests(n)
    \/ \E n \in JobSlots : VerifyTests(n)
    \/ \E n \in JobSlots : CommitAndPush(n)
    \/ \E n \in JobSlots : CreatePullRequest(n)
    \/ \E n \in JobSlots : ExecCatch(n)
    \/ ExecFinally

SpecExec == InitExec /\ [][NextExec]_vars

----------------------------------------------------------------------------
(* SpecTmp: the TempDirectoryService alone: its callers create and clean up     *)
(* directories, cleanupOld runs (hourly timer or by call), time passes and      *)
(* other programs make directories under the base directory.                    *)

MaxCreates == 2         \* create() calls in one behaviour

TmpPrefixes == {"job"}
HourMarks == {0, 1, 24, 25}
MaxAges == {1, 24}
foreignDir == join(baseDir, "cache")

\* the paths cleanup is called with: directories create() returned, a path under
\* the base that was never made, the directories outside the base, the empty path
CleanupPaths ==
    {join(baseDir, DirName(p, k)) : p \in TmpPrefixes, k \in 1..MaxCreates}
        \cup {join(baseDir, "missing"), foreignDir, siblingDir, escapeDir, elsewhereDir, <<>>}

\* what Date.now() and Math.random().toString(36).substring(2, 8) give a create()
\* call for the name of its directory: two calls may read the same millisecond
\* and draw the same suffix
NameTags == 1..MaxCreates

\* a caller creates a directory; the clock counts the calls
TmpCreate ==
    /\ clock < MaxCreates
    /\ \E prefix \in TmpPrefixes, tag \in NameTags, o \in CreateOutcomes :
        \E res \in {tmpCreate(fs, tracked, prefix, tag, hour, o)} :
            /\ fs' = res.fs
            /\ tracked' = res.tracked
            /\ tmpCall' = [op |-> "create", ok |-> res.ok, path |-> res.path]
    /\ clock' = clock + 1
    /\ UNCHANGED <<fsFaults, hour>>
    /\ UNCHANGED <<store, rowLock, isProcessing, wpc, wqueue, wtx, wres, exec, fin,
                   dbFaults, ended>>
    /\ UNCHANGED entVars
    /\ UNCHANGED otherVars

\* a caller cleans a path up
TmpCleanup ==
    /\ \E tempDir \in CleanupPaths, rmOk \in RmOutcomes :
        \E res \in {cleanup(fs, tracked, tempDir, rmOk)} :
            /\ ~rmOk => res.failed
            /\ fs' = res.fs
            /\ tracked' = res.tracked
            /\ fsFaults' = IF res.failed THEN fsFaults + 1 ELSE fsFaults
            /\ tmpCall' = [op |-> "cleanup", path |-> tempDir, failed |-> res.failed,
                           threw |-> res.threw]
    /\ UNCHANGED <<hour, store, clock, rowLock, isProcessing, wpc, wqueue, wtx, wres, exec,
                   fin, dbFaults, ended>>
    /\ UNCHANGED entVars
    /\ UNCHANGED otherVars

\* cleanupOld(maxAgeHours); fs.rm rejects for the entries in `failing`
TmpCleanupOld ==
    /\ \E maxAgeHours \in MaxAges :
        \E failing \in SUBSET OldEntries(fs, hour, maxAgeHours) :
            \E res \in {cleanupOld(fs, tracked, hour, maxAgeHours, failing)} :
                /\ fsFaults + Cardinality(failing) <= MaxFsFaults
                /\ fs' = res.fs
                /\ tracked' = res.tracked
                /\ fsFaults' = fsFaults + Cardinality(failing)
                /\ tmpCall' = [op |-> "cleanupOld", maxAgeHours |-> maxAgeHours,
                               failing |-> failing, threw |-> res.threw]
    /\ UNCHANGED <<hour, store, clock, rowLock, isProcessing, wpc, wqueue, wtx, wres, exec,
                   fin, dbFaults, ended>>
    /\ UNCHANGED entVars
    /\ UNCHANGED otherVars

\* time passes
TmpTick ==
    /\ \E h \in HourMarks : h > hour /\ hour' = h
    /\ tmpCall' = [op |-> "none"]
    /\ UNCHANGED <<fs, tracked, fsFaults>>
    /\ UNCHANGED <<store, clock, rowLock, isProcessing, wpc, wqueue, wtx, wres, exec, fin,
                   dbFaults, ended>>
    /\ UNCHANGED entVars
    /\ UNCHANGED otherVars

\* another program makes a directory under the base directory
TmpForeignMkdir ==
    /\ ~exists(fs, foreignDir)
    /\ fs' = mkdir(fs, foreignDir, hour)
    /\ tmpCall' = [op |-> "none"]
    /\ UNCHANGED <<tracked, fsFaults, hour>>
    /\ UNCHANGED <<store, clock, rowLock, isProcessing, wpc, wqueue, wtx, wres, exec, fin,
                   dbFaults, ended>>
    /\ UNCHANGED entVars
    /\ UNCHANGED otherVars

NextTmp ==
    \/ TmpCreate
    \/ TmpCleanup
    \/ TmpCleanupOld
    \/ TmpTick
    \/ TmpForeignMkdir

SpecTmp == Init /\ [][NextTmp]_vars

-----------------------------------------------------------------------------
(* SpecProc: one external command under a supervisor: DockerAdapter.run with    *)
(* executeWithTimeout (kind "docker", called by generateTests through            *)
(* executeInDocker) or AiCliAdapter.executeCommand (kind "local", called through *)
(* executeLocal).  Time is counted in seconds since the command was started.    *)
(* Exit codes are the JavaScript values 0, 1, 2, null and 'ENOENT', written as   *)
(* strings.                                                                      *)

GraceSeconds == 5
MaxNow == 9             \* seconds one run is followed for

Timeouts == {1, 2}
ExitCodes == {"0", "1", "2", "null"}
StdoutTexts == {"", " out "}
StderrTexts == {"", " err "}

\* String.prototype.trim on the texts of the model
trim(s) == CASE s = " out " -> "out" [] s = " err " -> "err" [] s = "   " -> "" [] OTHER -> s

\* JavaScript `v || d`: d when v is 0, null or the empty string
OrElse(v, d) == IF v \in {"0", "null", ""} THEN d ELSE v

\* the promise of executeWithTimeout settles on 'close'
DockerClose(p) ==
    IF p.timedOut
    THEN [by |-> "reject", killed |-> TRUE, signal |-> "SIGTERM", code |-> "null",
          message |-> "Command timed out", stdout |-> p.stdout, stderr |-> p.stderr]
    ELSE IF p.code # "0"
    THEN [by |-> "reject", killed |-> FALSE, signal |-> "null", code |-> p.code,
          message |-> "Command exited with code n", stdout |-> p.stdout,
          stderr |-> p.stderr]
    ELSE [by |-> "resolve", killed |-> FALSE, signal |-> "null", code |-> "0",
          message |-> "", stdout |-> p.stdout, stderr |-> p.stderr]

\* the promise of executeWithTimeout settles on 'error' (the process could not
\* be spawned): nothing was captured
DockerError(p) ==
    [by |-> "reject", killed |-> FALSE, signal |-> "null", code |-> "ENOENT",
     message |-> "spawn ENOENT", stdout |-> "", stderr |-> ""]

\* DockerAdapter.run: the try/catch around executeWithTimeout
run(settled) ==
    IF settled.by = "resolve"
    THEN [type |-> "result", exitCode |-> "0", stdout |-> trim(settled.stdout),
          stderr |-> trim(settled.stderr)]
    ELSE IF settled.killed /\ settled.signal = "SIGTERM"
    THEN [type |-> "raised", exitCode |-> "null", stdout |-> "", stderr |-> ""]
    ELSE [type |-> "result", exitCode |-> OrElse(settled.code, "1"),
          stdout |-> OrElse(trim(settled.stdout), ""),
          stderr |-> OrElse(trim(settled.stderr), settled.message)]

\* the promise of AiCliAdapter.executeCommand settles on 'close'
executeCommandClose(p) ==
    IF p.timedOut
    THEN [type |-> "raised", exitCode |-> "null", stdout |-> "", stderr |-> ""]
    ELSE [type |-> "result", exitCode |-> OrElse(p.code, "0"), stdout |-> p.stdout,
          stderr |-> p.stderr]

\* AiCliAdapter.generateTests: success for exit code 0, failure for any other
\* exit code and for an error it catches
generateTests(result) ==
    IF result.type = "result" /\ result.exitCode = "0" THEN "success" ELSE "failure"

NoRun == [type |-> "none"]

ProcFrame ==
    /\ UNCHANGED <<store, clock, rowLock, isProcessing, wpc, wqueue, wtx, wres, exec, fin,
                   dbFaults, ended>>
    /\ UNCHANGED entVars
    /\ UNCHANGED tmpVars
    /\ UNCHANGED serVars
    /\ UNCHANGED reqVars
    /\ UNCHANGED gitVars
    /\ UNCHANGED pollVars
    /\ UNCHANGED lifeVars

\* a supervisor starts a command: exec / spawn, setTimeout
ProcRun ==
    /\ proc = NoProc
    /\ \E kind \in {"docker", "local"}, timeout \in Timeouts, ignoresTerm \in BOOLEAN,
          out \in StdoutTexts, err \in StderrTexts, spawned \in BOOLEAN :
        proc' = [kind |-> kind, timeout |-> timeout, now |-> 0,
                 child |-> IF spawned THEN "alive" ELSE "unspawned", code |-> "null",
                 ignoresTerm |-> ignoresTerm, stdout |-> out, stderr |-> err,
                 timedOut |-> FALSE, killed |-> FALSE, timerDone |-> FALSE,
                 graceArmed |-> FALSE, graceDone |-> FALSE, closed |-> FALSE,
                 settled |-> FALSE, result |-> NoRun, ai |-> "none", sent |-> {}]
    /\ ProcFrame

\* the command ends by itself with an exit code, or by a signal from elsewhere
ProcExit ==
    /\ proc.kind # "none"
    /\ proc.child = "alive"
    /\ \E code \in ExitCodes : proc' = [proc EXCEPT !.child = "dead", !.code = code]
    /\ ProcFrame

\* the timeout callback: timedOut = true, kill('SIGTERM') (which sets
\* child.killed when the signal is sent), and the force-kill timer is set.
\* kill() sends nothing to a process that has exited; proc.sent holds the
\* signals the supervisor has sent
ProcTimeout ==
    /\ proc.kind # "none"
    /\ ~proc.timerDone
    /\ proc.now = proc.timeout
    /\ proc' = [proc EXCEPT
                   !.timedOut = TRUE, !.timerDone = TRUE, !.graceArmed = TRUE,
                   !.killed = (proc.child = "alive"),
                   !.sent = IF proc.child = "alive" THEN @ \cup {"SIGTERM"} ELSE @,
                   !.child = IF proc.child = "alive" /\ ~proc.ignoresTerm
                             THEN "dead" ELSE @]
    /\ ProcFrame

\* the force-kill callback, 5 seconds after the timeout callback: DockerAdapter
\* tests childProcess.exitCode === null, AiCliAdapter tests !child.killed
ProcGrace ==
    /\ proc.kind # "none"
    /\ proc.graceArmed /\ ~proc.graceDone
    /\ proc.now = proc.timeout + GraceSeconds
    /\ LET sigkill == IF proc.kind = "docker" THEN proc.child = "alive"
                      ELSE ~proc.killed
       IN  proc' = [proc EXCEPT
                       !.graceDone = TRUE,
                       !.sent = IF sigkill /\ proc.child = "alive"
                                THEN @ \cup {"SIGKILL"} ELSE @,
                       !.child = IF sigkill /\ proc.child = "alive" THEN "dead" ELSE @]
    /\ ProcFrame

\* on('close'): clearTimeout and the promise settles; the caller's code runs
ProcClose ==
    /\ proc.kind # "none"
    /\ proc.child = "dead" /\ ~proc.closed
    /\ LET result == IF proc.kind = "docker" THEN run(DockerClose(proc))
                     ELSE executeCommandClose(proc)
       IN  proc' = [proc EXCEPT !.closed = TRUE, !.timerDone = TRUE, !.settled = TRUE,
                                !.result = result, !.ai = generateTests(result)]
    /\ ProcFrame

\* on('error'): the process could not be spawned
ProcError ==
    /\ proc.kind # "none"
    /\ proc.child = "unspawned" /\ ~proc.settled
    /\ LET result == IF proc.kind = "docker" THEN run(DockerError(proc))
                     ELSE [type |-> "raised", exitCode |-> "null", stdout |-> "",
                           stderr |-> ""]
       IN  proc' = [proc EXCEPT !.timerDone = TRUE, !.settled = TRUE,
                                !.result = result, !.ai = generateTests(result)]
    /\ ProcFrame

\* a second passes: no callback is due and no event is waiting
ProcTick ==
    /\ proc.kind # "none"
    /\ proc.now < MaxNow
    /\ proc.settled => (proc.graceArmed /\ ~proc.graceDone)
    /\ ~(~proc.timerDone /\ proc.now = proc.timeout)
    /\ ~(proc.graceArmed /\ ~proc.graceDone /\ proc.now = proc.timeout + GraceSeconds)
    /\ ~(proc.child = "dead" /\ ~proc.closed)
    /\ ~(proc.child = "unspawned" /\ ~proc.settled)
    /\ proc' = [proc EXCEPT !.now = @ + 1]
    /\ ProcFrame

NextProc ==
    \/ ProcRun
    \/ ProcExit
    \/ ProcTimeout
    \/ ProcGrace
    \/ ProcClose
    \/ ProcError
    \/ ProcTick

SpecProc == Init /\ [][NextProc]_vars

-----------------------------------------------------------------------------
(* SpecSer: JobSerializer alone, one instance, called by one thread.  The Map   *)
(* `locks` is the set of its entries <<key, value>>.                             *)

MaxLockTime == 2        \* readings of the clock by `new Date()`

RepositoryIds == {"repo1", "repo2", "", "   "}
JobIds == {"job1", "job2", "", "   "}

\* Map.prototype.has / get / set / delete
MapHas(m, k) == \E e \in m : e[1] = k
MapGet(m, k) == (CHOOSE e \in m : e[1] = k)[2]
MapSet(m, k, v) == {e \in m : e[1] # k} \cup {<<k, v>>}
MapDelete(m, k) == {e \in m : e[1] # k}

\* `!id || id.trim() === ''`
Blank(id) == id = "" \/ trim(id) = ""

LockToken(repositoryId, jobId, acquiredAt) ==
    [repositoryId |-> repositoryId, jobId |-> jobId, acquiredAt |-> acquiredAt]

\* a call that threw: the Map is as it was; a call that returned: the value, as
\* text ("token" for the LockToken now stored under the key)
SerThrown(m, message) == [threw |-> TRUE, error |-> message, locks |-> m]
SerReturned(m, value) == [threw |-> FALSE, result |-> value, locks |-> m]

acquireLock_overwrites(m, repositoryId, jobId, now) ==
    CASE Blank(repositoryId) -> SerThrown(m, "Repository ID is required to acquire lock")
      [] Blank(jobId) -> SerThrown(m, "Job ID is required to acquire lock")
      [] OTHER -> SerReturned(MapSet(m, repositoryId, LockToken(repositoryId, jobId, now)),
                              "token")

acquireLock(m, repositoryId, jobId, now) ==
    CASE Blank(repositoryId) -> SerThrown(m, "Repository ID is required to acquire lock")
      [] Blank(jobId) -> SerThrown(m, "Job ID is required to acquire lock")
      [] MapHas(m, repositoryId) -> SerThrown(m, "is locked by job")
      [] OTHER -> SerReturned(MapSet(m, repositoryId, LockToken(repositoryId, jobId, now)),
                              "token")

releaseLock_anyJob(m, repositoryId, jobId) ==
    CASE Blank(repositoryId) -> SerThrown(m, "Repository ID is required to release lock")
      [] ~MapHas(m, repositoryId) -> SerReturned(m, "false")
      [] OTHER -> SerReturned(MapDelete(m, repositoryId), "true")

releaseLock(m, repositoryId, jobId) ==
    CASE Blank(repositoryId) -> SerThrown(m, "Repository ID is required to release lock")
      [] ~MapHas(m, repositoryId) -> SerReturned(m, "false")
      [] MapGet(m, repositoryId).jobId # jobId -> SerThrown(m, "Cannot release lock")
      [] OTHER -> SerReturned(MapDelete(m, repositoryId), "true")

\* Map.delete returns whether an entry was removed
forceReleaseLock(m, repositoryId) ==
    IF Blank(repositoryId)
    THEN SerThrown(m, "Repository ID is required to force release lock")
    ELSE SerReturned(MapDelete(m, repositoryId),
                     IF MapHas(m, repositoryId) THEN "true" ELSE "false")

releaseAllLocks(m) == SerReturned({}, "void")

SerFrame ==
    /\ UNCHANGED <<store, rowLock, isProcessing, wpc, wqueue, wtx, wres, exec, fin,
                   dbFaults, ended>>
    /\ UNCHANGED entVars
    /\ UNCHANGED tmpVars
    /\ UNCHANGED procVars
    /\ UNCHANGED reqVars
    /\ UNCHANGED gitVars
    /\ UNCHANGED pollVars
    /\ UNCHANGED lifeVars

\* the repository and job of a call if it was a releaseLock that returned true
Released(c) ==
    IF c.op = "releaseLock" /\ c.result = "true" THEN <<c.repositoryId, c.jobId>> ELSE <<>>

\* the call `op` with its arguments returned or threw as `res` tells;
\* `justReleased` is what the call before it released
SerCall(op, repositoryId, jobId, res) ==
    /\ locks' = res.locks
    /\ serCall' = [op |-> op, repositoryId |-> repositoryId, jobId |-> jobId,
                   threw |-> res.threw,
                   result |-> IF res.threw THEN res.error ELSE res.result,
                   justReleased |-> Released(serCall)]
    /\ UNCHANGED clock
    /\ SerFrame

SerAcquireLock ==
    \E r \in RepositoryIds, j \in JobIds :
        SerCall("acquireLock", r, j, acquireLock(locks, r, j, clock))

SerReleaseLock ==
    \E r \in RepositoryIds, j \in JobIds :
        SerCall("releaseLock", r, j, releaseLock(locks, r, j))

SerForceReleaseLock ==
    \E r \in RepositoryIds :
        SerCall("forceReleaseLock", r, "", forceReleaseLock(locks, r))

SerReleaseAllLocks == SerCall("releaseAllLocks", "", "", releaseAllLocks(locks))

\* time passes between two calls
SerTick ==
    /\ clock < MaxLockTime
    /\ clock' = clock + 1
    /\ serCall' = [op |-> "none"]
    /\ UNCHANGED locks
    /\ SerFrame

NextSer ==
    \/ SerAcquireLock
    \/ SerReleaseLock
    \/ SerForceReleaseLock
    \/ SerReleaseAllLocks
    \/ SerTick

SpecSer == Init /\ [][NextSer]_vars

-----------------------------------------------------------------------------
(* SpecReq: RequestImproveFileUseCase.execute against the job table, with the   *)
(* ids uuidv4() may return; one request at a time.                               *)

Requesters == {"u", "v"}
ReqFiles == {<<"s", "r", "c", "/", "A", ".", "t", "s">>, <<"s", "r", "c", "/", "b", ".", "t", "s">>}

\* what the lookups before the job is created find
Lookups == {"ok", "noRepository", "noFile", "aboveThreshold"}

\* ImprovementOrchestrator.createImprovementJob
createImprovementJob(jobId, repositoryId, filePath, requestedBy, now) ==
    create(jobId, repositoryId, filePath, requestedBy, now)

ReqFrame ==
    /\ UNCHANGED <<rowLock, isProcessing, wpc, wqueue, wtx, wres, exec, fin, dbFaults, ended>>
    /\ UNCHANGED entVars
    /\ UNCHANGED tmpVars
    /\ UNCHANGED procVars
    /\ UNCHANGED serVars
    /\ UNCHANGED gitVars
    /\ UNCHANGED pollVars
    /\ UNCHANGED lifeVars

\* execute(dto): the lookups, uuidv4(), createImprovementJob, createJob, toDto
ReqExecute ==
    /\ clock < MaxJobs
    /\ \E look \in Lookups, jobId \in Uuids, r \in Repos, f \in ReqFiles, u \in Requesters,
          o \in SaveOutcomes :
        \E saved \in {createJob(store, createImprovementJob(jobId, r, f, u, clock), o)} :
            /\ o = "rejected" => ~saved.ok
            /\ store' = IF look = "ok" THEN saved.store ELSE store
            /\ reqCall' = [op |-> "execute", repositoryId |-> r, filePath |-> f,
                           requestedBy |-> u,
                           threw |-> look # "ok" \/ ~saved.ok,
                           id |-> jobId]
    /\ clock' = clock + 1
    /\ ReqFrame

NextReq == ReqExecute

SpecReq == Init /\ [][NextReq]_vars

-----------------------------------------------------------------------------
(* SpecGit: the one LocalGitAdapter of the process, called by the pipelines of   *)
(* jobs of different repositories that run at the same time (executeJob is not  *)
(* awaited by poll).  Pipeline k works for the job of repository k in its own   *)
(* workspace; the stages between clone and commit-and-push make no git call.    *)

MaxPipelines == 2       \* pipelines in flight together

Pipelines == 1..MaxPipelines

\* the workspace tempDirService.create made for pipeline k
WorkspaceOf(k) == join(baseDir, DirName("job", k))

\* getGit() without a path: this.git, the instance of the directory that
\* currentRepoPath names; it throws while there is none
getGit(g) == [threw |-> g.currentRepoPath = Null, dir |-> g.currentRepoPath]

\* pipeline k has run the git command `op` in the directory `dir`
Ran(g, k, op, dir) == [g EXCEPT !.ops = @ \cup {<<k, op, dir>>}]

\* where pipeline k stands
At(g, k, pc) == [g EXCEPT !.at = [j \in Pipelines |-> IF j = k THEN pc ELSE g.at[j]]]

GitFrame ==
    /\ UNCHANGED <<store, clock, rowLock, isProcessing, wpc, wqueue, wtx, wres, exec, fin,
                   dbFaults, ended>>
    /\ UNCHANGED entVars
    /\ UNCHANGED tmpVars
    /\ UNCHANGED procVars
    /\ UNCHANGED serVars
    /\ UNCHANGED reqVars
    /\ UNCHANGED pollVars
    /\ UNCHANGED lifeVars

\* the pipelines are dispatched
GitDispatch ==
    /\ git = NoGit
    /\ git' = [git EXCEPT !.at = [k \in Pipelines |-> "dispatched"]]
    /\ GitFrame

\* cloneRepository calls cloneRepo(url, tmpDir): `await git.clone` of a fresh
\* instance is under way
GitCloneStart(k) ==
    /\ git.at # <<>>
    /\ git.at[k] = "dispatched"
    /\ git' = At(git, k, "cloning")
    /\ GitFrame

\* git.clone settles: on success the adapter points this.git to the clone
GitCloneEnd(k) ==
    /\ git.at # <<>>
    /\ git.at[k] = "cloning"
    /\ \E o \in Outcomes :
          git' = IF o = "ok"
                 THEN [At(Ran(git, k, "clone", WorkspaceOf(k)), k, "cloned")
                          EXCEPT !.currentRepoPath = WorkspaceOf(k)]
                 ELSE At(git, k, "failed")
    /\ GitFrame

\* one call of the adapter by commitAndPush: getGit(), then the git command on
\* the instance it returned
GitCall(k, from, op, to) ==
    /\ git.at # <<>>
    /\ git.at[k] = from
    /\ \E got \in {getGit(git)} :
          git' = IF got.threw THEN At(git, k, "failed")
                 ELSE At(Ran(git, k, op, got.dir), k, to)
    /\ GitFrame

\* checkoutNewBranch(job.branchName)
GitCheckoutNewBranch(k) == GitCall(k, "cloned", "checkout", "checkedOut")

\* commitAll(message): add('.') and commit on one instance
GitCommitAll(k) == GitCall(k, "checkedOut", "commit", "committed")

\* push(job.branchName)
GitPush(k) == GitCall(k, "committed", "push", "pushed")

NextGit ==
    \/ GitDispatch
    \/ \E k \in Pipelines :
          \/ GitCloneStart(k)
          \/ GitCloneEnd(k)
          \/ GitCheckoutNewBranch(k)
          \/ GitCommitAll(k)
          \/ GitPush(k)

SpecGit == Init /\ [][NextGit]_vars

-----------------------------------------------------------------------------
(* SpecCwd: the working directory of the process, changed by the commitAndPush  *)
(* stages of pipelines that run at the same time.  Pipeline k has its workspace *)
(* WorkspaceOf(k) and has reached commitAndPush; the stage sets the directory   *)
(* before its try block and restores it in finally; executeJob removes the       *)
(* workspace in its own finally.                                                *)

\* where pipeline k stands: "before" the stage, awaiting "checkout", "commit" or
\* "push" inside the try block, at "finally", "left" (the stage returned or
\* threw), "cleaned" (executeJob's finally has run)
StageOf(g, k) == IF k \in DOMAIN g.stage THEN g.stage[k] ELSE "before"

InsideCommitAndPush == {"checkout", "commit", "push", "finally"}

Staged(g, k, pc) ==
    [g EXCEPT !.stage = [j \in Pipelines |-> IF j = k THEN pc ELSE StageOf(g, j)]]

\* process.cwd(): it throws when the current directory no longer exists
cwd(g) == [threw |-> g.cwd \in g.removed, dir |-> g.cwd]

\* process.chdir(dir): it throws, and changes nothing, when dir does not exist
chdir(g, dir) == IF dir \in g.removed THEN [threw |-> TRUE, git |-> g]
                 ELSE [threw |-> FALSE, git |-> [g EXCEPT !.cwd = dir]]

\* commitAndPush up to its first await in the try block:
\* const originalCwd = process.cwd(); process.chdir(tmpDir);
CwdEnter(k) ==
    /\ StageOf(git, k) = "before"
    /\ \E was \in {cwd(git)} :
          git' = IF was.threw THEN Staged(git, k, "left")
                 ELSE [Staged(chdir(git, WorkspaceOf(k)).git, k, "checkout")
                          EXCEPT !.originalCwd =
                                    [j \in Pipelines |->
                                        IF j = k THEN was.dir
                                        ELSE IF j \in DOMAIN git.originalCwd
                                             THEN git.originalCwd[j] ELSE Null]]
    /\ GitFrame

\* an awaited call of the try block settles: the next one starts, or the call
\* threw or was the last one and finally is next
CwdAwait(k) ==
    /\ StageOf(git, k) \in {"checkout", "commit", "push"}
    /\ \E o \in Outcomes :
          git' = Staged(git, k,
                        CASE o # "ok" -> "finally"
                          [] StageOf(git, k) = "checkout" -> "commit"
                          [] StageOf(git, k) = "commit" -> "push"
                          [] OTHER -> "finally")
    /\ GitFrame

\* finally { process.chdir(originalCwd) }
CwdLeave(k) ==
    /\ StageOf(git, k) = "finally"
    /\ git' = Staged(chdir(git, git.originalCwd[k]).git, k, "left")
    /\ GitFrame

\* executeJob's finally: tempDirService.cleanup(tmpDir) removes the workspace
CwdCleanup(k) ==
    /\ StageOf(git, k) = "left"
    /\ git' = [Staged(git, k, "cleaned") EXCEPT !.removed = @ \cup {WorkspaceOf(k)}]
    /\ GitFrame

NextCwd ==
    \E k \in Pipelines :
        \/ CwdEnter(k)
        \/ CwdAwait(k)
        \/ CwdLeave(k)
        \/ CwdCleanup(k)

SpecCwd == Init /\ [][NextCwd]_vars

-----------------------------------------------------------------------------
(* SpecPoll: the timer of one WorkerService instance and its poll() calls with  *)
(* their failure paths: fetchExecutableJobs or tryAcquireLock may reject, and   *)
(* the executeJob calls it dispatches run (and reject) while the loop goes on.  *)
(* tryAcquireLock runs without another database client in between (SpecLock     *)
(* has the interleavings of several instances).  A poll() call in flight is an  *)
(* entry of polls.live, so that two of them at once can be told apart.          *)

MaxTicks == 3           \* timer ticks of the instance

\* the instance whose timer is followed
Poller == "w1"

\* `if (this.isProcessing) return;` never taken
Skips_never(flag) == FALSE

\* `if (this.isProcessing) return;`
Skips(flag) == flag

\* the per-job catch missing: the error ends the loop
AfterJobError_abort(jobs) == <<>>

\* catch (error) inside the for loop: logs, the loop goes on with the next job
AfterJobError(jobs) == Tail(jobs)

\* `await this.jobExecutor.executeJob(job)`: the call is over when the loop goes on
executeJobCall_awaited(ex, n, job, attempt) == [ex EXCEPT ![n] = NoExec]

\* `this.jobExecutor.executeJob(job).catch(...)`, not awaited: the call has run up
\* to its first await and is in flight when the loop goes on
executeJobCall(ex, n, job, attempt) == [ex EXCEPT ![n] = NewExec(job, attempt)]

\* the ids of a list of jobs
IdsOf(jobs) == [k \in DOMAIN jobs |-> jobs[k].id]

\* poll() called by tick number `tick`, at `await fetchExecutableJobs()`
NewPoll(tick) ==
    [tick |-> tick, pc |-> "fetch", jobs |-> <<>>, fetched |-> <<>>, attempted |-> <<>>,
     threw |-> <<>>]

\* what is recorded when a poll() call returns
Returned(p, path) ==
    [path |-> path, tick |-> p.tick, fetched |-> p.fetched, attempted |-> p.attempted,
     threw |-> p.threw]

PollFrame == UNCHANGED <<rowLock, wpc, wqueue, wtx, wres, fin, ended>>

\* finally { this.isProcessing = false }, and poll() returns
PollReturns(p, path) ==
    /\ isProcessing' = [isProcessing EXCEPT ![Poller] = FALSE]
    /\ polls' = [polls EXCEPT !.live = @ \ {p}, !.last = Returned(p, path)]

\* the setInterval callback: poll() up to its first await
PollTick ==
    /\ polls.ticks < MaxTicks
    /\ IF Skips(isProcessing[Poller])
       THEN /\ polls' = [polls EXCEPT !.ticks = @ + 1, !.skipped = @ + 1]
            /\ UNCHANGED isProcessing
       ELSE /\ isProcessing' = [isProcessing EXCEPT ![Poller] = TRUE]
            /\ polls' = [polls EXCEPT !.ticks = @ + 1,
                                      !.live = @ \cup {NewPoll(polls.ticks + 1)}]
    /\ UNCHANGED <<store, clock, exec, dbFaults>>
    /\ PollFrame
    /\ UNCHANGED entVars
    /\ UNCHANGED tmpVars
    /\ UNCHANGED <<proc, locks, serCall, reqCall, git, life>>

\* fetchExecutableJobs settles: a rejection goes to the outer catch, an empty
\* list returns, both through finally; otherwise the loop starts
PollFetch ==
    /\ \E p \in polls.live, db \in DbOutcomes :
        /\ p.pc = "fetch"
        /\ \E jobs \in {fetchExecutableJobs(store)} :
            CASE db = "throws" ->
                    /\ PollReturns(p, "fetchError")
                    /\ dbFaults' = dbFaults + 1
              [] Len(jobs) = 0 ->
                    /\ PollReturns(p, "empty")
                    /\ UNCHANGED dbFaults
              [] OTHER ->
                    /\ polls' = [polls EXCEPT
                                    !.live = (@ \ {p}) \cup
                                             {[p EXCEPT !.pc = "loop", !.jobs = jobs,
                                                        !.fetched = IdsOf(jobs)]}]
                    /\ UNCHANGED <<isProcessing, dbFaults>>
    /\ UNCHANGED <<store, clock, exec>>
    /\ PollFrame
    /\ UNCHANGED entVars
    /\ UNCHANGED tmpVars
    /\ UNCHANGED <<proc, locks, serCall, reqCall, git, life>>

\* one turn of `for (const job of jobs)`: tryAcquireLock settles; a rejection is
\* caught and logged for this job; true calls executeJob(job) without awaiting it
PollJob ==
    /\ \E p \in polls.live, db \in DbOutcomes :
        /\ p.pc = "loop"
        /\ p.jobs # <<>>
        /\ \E job \in {Head(p.jobs)} :
            \E res \in {tryAcquireLock(store, job.id, BranchNameFor(job, clock))} :
                IF db = "throws"
                THEN /\ polls' = [polls EXCEPT
                                    !.live = (@ \ {p}) \cup
                                             {[p EXCEPT !.jobs = AfterJobError(@),
                                                        !.attempted = Append(@, job.id),
                                                        !.threw = Append(@, job.id)]}]
                     /\ dbFaults' = dbFaults + 1
                     /\ UNCHANGED <<store, exec>>
                ELSE /\ polls' = [polls EXCEPT
                                    !.live = (@ \ {p}) \cup
                                             {[p EXCEPT !.jobs = Tail(@),
                                                        !.attempted = Append(@, job.id)]}]
                     /\ store' = res.store
                     /\ exec' = IF res.ok
                                THEN executeJobCall(exec, parseInt(job.id),
                                        PollHandoff(job, res.store),
                                        res.store[parseInt(job.id)].attemptCount)
                                ELSE exec
                     /\ UNCHANGED dbFaults
    /\ UNCHANGED <<clock, isProcessing>>
    /\ PollFrame
    /\ UNCHANGED entVars
    /\ UNCHANGED tmpVars
    /\ UNCHANGED <<proc, locks, serCall, reqCall, git, life>>

\* the loop is over: finally
PollEnd ==
    /\ \E p \in polls.live :
        /\ p.pc = "loop"
        /\ p.jobs = <<>>
        /\ PollReturns(p, "loop")
    /\ UNCHANGED <<store, clock, exec, dbFaults>>
    /\ PollFrame
    /\ UNCHANGED entVars
    /\ UNCHANGED tmpVars
    /\ UNCHANGED <<proc, locks, serCall, reqCall, git, life>>

NextPoll ==
    \/ RequestImproveFile
    \/ PollTick
    \/ PollFetch
    \/ PollJob
    \/ PollEnd
    \/ \E n \in JobSlots : ExecCreateTmp(n)
    \/ \E n \in JobSlots : ExecFindRepository(n)
    \/ \E n \in JobSlots : CloneRepository(n)
    \/ \E n \in JobSlots : ExecCatch(n)
    \/ ExecFinally

SpecPoll == Init /\ [][NextPoll]_vars

\* a poll() call in flight whose await settles: the fetch, and the end of the loop
PollSteps == PollFetch \/ PollEnd

\* the turn of the loop that PollJob takes is pending (ENABLED PollJob written out)
LoopTurnPending == \E p \in polls.live : p.pc = "loop" /\ p.jobs # <<>>

\* an executeJob call in flight past create() takes its next step: every
\* collaborator call returns or throws
ExecSteps ==
    \/ \E n \in JobSlots : ExecFindRepository(n)
    \/ \E n \in JobSlots : CloneRepository(n)
    \/ \E n \in JobSlots : ExecCatch(n)
    \/ ExecFinally

\* SpecPoll where no call in flight waits forever; requests and timer ticks
\* need not go on.  PollJob is enabled exactly when LoopTurnPending holds and
\* ExecCreateTmp(n) exactly when the call is at create(), and only those
\* actions end these conditions, so weak fairness of the two is the same as
\* the conditions being false again and again.
FairSpecPoll ==
    /\ SpecPoll
    /\ WF_vars(PollSteps)
    /\ WF_vars(ExecSteps)
    /\ []<>(~LoopTurnPending)
    /\ \A n \in JobSlots : []<>(~InStage(n, "create"))

-----------------------------------------------------------------------------
(* SpecLife: the TempDirectoryService from its construction to the end of       *)
(* onModuleDestroy.  cleanupAll starts one cleanup call per tracked directory   *)
(* and awaits them all; while it waits, the create and cleanup calls of the     *)
(* pipelines still in flight go on.                                             *)

\* TEMP_CLEANUP_HOURS: the age from which the hourly sweep cleans a directory
CleanupHours == 24

LifeFrame ==
    /\ UNCHANGED <<store, rowLock, isProcessing, wpc, wqueue, wtx, wres, exec, fin,
                   dbFaults, ended>>
    /\ UNCHANGED entVars
    /\ UNCHANGED <<proc, locks, serCall, reqCall, git, polls>>

\* a caller creates a directory
LifeCreate ==
    /\ clock < MaxCreates
    /\ \E prefix \in TmpPrefixes, tag \in NameTags, o \in CreateOutcomes :
        \E res \in {tmpCreate(fs, tracked, prefix, tag, hour, o)} :
            /\ fs' = res.fs
            /\ tracked' = res.tracked
            /\ tmpCall' = [op |-> "create", ok |-> res.ok, path |-> res.path]
            /\ life' = IF life.destroy = "running" /\ res.ok
                       THEN [life EXCEPT !.created = @ \cup {res.path}]
                       ELSE life
    /\ clock' = clock + 1
    /\ UNCHANGED <<fsFaults, hour>>
    /\ LifeFrame

\* the setInterval callback of startAutomaticCleanup: cleanupOld(cleanupHours)
LifeSweep ==
    /\ life.cleanupInterval
    /\ \E failing \in SUBSET OldEntries(fs, hour, CleanupHours) :
        \E res \in {cleanupOld(fs, tracked, hour, CleanupHours, failing)} :
            /\ fsFaults + Cardinality(failing) <= MaxFsFaults
            /\ fs' = res.fs
            /\ tracked' = res.tracked
            /\ fsFaults' = fsFaults + Cardinality(failing)
            /\ tmpCall' = [op |-> "cleanupOld", maxAgeHours |-> CleanupHours,
                           failing |-> failing, threw |-> res.threw]
    /\ UNCHANGED <<clock, hour, life>>
    /\ LifeFrame

\* stopAutomaticCleanup: clearInterval
stopAutomaticCleanup(l) == [l EXCEPT !.cleanupInterval = FALSE]

\* onModuleDestroy up to `await Promise.allSettled`: the timer is stopped and a
\* cleanup call is started for each directory tracked now
LifeDestroy ==
    /\ life.destroy = "none"
    /\ life' = [stopAutomaticCleanup(life) EXCEPT !.destroy = "running", !.found = tracked,
                                                  !.pending = tracked]
    /\ tmpCall' = [op |-> "onModuleDestroy"]
    /\ UNCHANGED <<fs, tracked, fsFaults, hour, clock>>
    /\ LifeFrame

\* one of the cleanup calls of cleanupAll settles
LifeCleanupOne ==
    /\ life.destroy = "running"
    /\ \E dir \in life.pending, rmOk \in RmOutcomes :
        \E res \in {cleanup(fs, tracked, dir, rmOk)} :
            /\ ~rmOk => res.failed
            /\ fs' = res.fs
            /\ tracked' = res.tracked
            /\ fsFaults' = IF res.failed THEN fsFaults + 1 ELSE fsFaults
            /\ tmpCall' = [op |-> "cleanup", path |-> dir, failed |-> res.failed,
                           threw |-> res.threw]
            /\ life' = [life EXCEPT !.pending = @ \ {dir},
                                    !.failed = IF res.failed THEN @ \cup {dir} ELSE @]
    /\ UNCHANGED <<clock, hour>>
    /\ LifeFrame

\* Promise.allSettled resolves: onModuleDestroy completes
LifeDestroyed ==
    /\ life.destroy = "running"
    /\ life.pending = {}
    /\ life' = [life EXCEPT !.destroy = "done"]
    /\ tmpCall' = [op |-> "none"]
    /\ UNCHANGED <<fs, tracked, fsFaults, hour, clock>>
    /\ LifeFrame

NextLife ==
    \/ LifeCreate
    \/ LifeSweep
    \/ LifeDestroy
    \/ LifeCleanupOne
    \/ LifeDestroyed
    \/ TmpCleanup
    \/ TmpTick

SpecLife == Init /\ [][NextLife]_vars

-----------------------------------------------------------------------------
(* Properties of the repository lock (C1, C2 under Spec, C3 under SpecLock) *)

RunningJobsOf(r) == {n \in Rows : store[n].repositoryId = r /\ store[n].status = RUNNING}

\* C1: in every reachable state of the job table, every repository has at most
\* one job with status RUNNING, whatever the interleaving of the tryAcquireLock
\* calls of the worker instances and of the pipeline writes.
C1_AtMostOneRunningPerRepository ==
    \A r \in Repos : Cardinality(RunningJobsOf(r)) <= 1

\* two finished tryAcquireLock calls that ran concurrently, for two different
\* executable jobs of one repository that had no RUNNING job when each call began
ConcurrentCalls(w, v) ==
    /\ w # v
    /\ wres[w].done /\ wres[v].done
    /\ v \in wres[w].overlapped /\ w \in wres[v].overlapped
    /\ wres[w].jobId # wres[v].jobId
    /\ wres[w].repositoryId = wres[v].repositoryId
    /\ wres[w].idle /\ wres[v].idle

\* C2: of two tryAcquireLock calls issued concurrently for two different PENDING
\* or RETRY jobs of one repository that has no RUNNING job, exactly one returns
\* true and the other returns false, for every interleaving of their reads and
\* writes.
C2_ExactlyOneCallSucceeds ==
    \A w \in Workers, v \in Workers :
        ConcurrentCalls(w, v) => (wres[w].ok /\ ~wres[v].ok) \/ (~wres[w].ok /\ wres[v].ok)

\* the step in which worker w's tryAcquireLock call returns
Returns(w) == wtx[w].active /\ ~wtx'[w].active

\* the fields of a row tryAcquireLock does not assign
SameBut(old, new) ==
    new = [old EXCEPT !.status = new.status, !.branchName = new.branchName,
                      !.attemptCount = new.attemptCount]

\* C3: a tryAcquireLock call that returns true has made the job's persisted
\* status RUNNING, its branchName the given name and its attemptCount one more
\* than before, and has changed no other job; a call that returns false (job
\* missing, job not PENDING or RETRY, another job of the repository RUNNING)
\* changes no persisted field of any job; no step of a call before its return
\* writes the table.
C3_LockFrameEffect ==
    [][\A w \in Workers :
        /\ (wtx[w].active /\ wpc'[w] # wpc[w] /\ ~Returns(w)) => store' = store
        /\ Returns(w) =>
            LET n == parseInt(wtx[w].job.id)
            IN  IF wres'[w].ok
                THEN /\ store'[n].status = RUNNING
                     /\ store'[n].branchName = wtx[w].branchName
                     /\ store'[n].attemptCount = store[n].attemptCount + 1
                     /\ SameBut(store[n], store'[n])
                     /\ \A k \in Rows \ {n} : store'[k] = store[k]
                ELSE store' = store]_vars

\* both outcomes of tryAcquireLock have happened: one worker's call returned
\* true and made the job RUNNING, another's returned false
C3_Witness ==
    \E w \in Workers, v \in Workers :
        /\ wres[w].done /\ wres[w].ok
        /\ store[parseInt(wres[w].jobId)].status = RUNNING
        /\ store[parseInt(wres[w].jobId)].attemptCount = 1
        /\ wres[v].done /\ ~wres[v].ok

----------------------------------------------------------------------------
(* Properties of the ImprovementJob state machine (checked under SpecJob) *)

\* the status changes of the documented state machine
DocumentedChanges ==
    {<<PENDING, RUNNING>>, <<RETRY, RUNNING>>, <<RUNNING, SUCCEEDED>>,
     <<RUNNING, RETRY>>, <<RUNNING, FAILED>>, <<FAILED, PENDING>>}

\* C4 as stated: over any sequence of ImprovementJob operations the only status
\* changes are PENDING to RUNNING, RETRY to RUNNING, RUNNING to SUCCEEDED, RUNNING
\* to RETRY, RUNNING to FAILED and FAILED to PENDING (by retry() only); no other
\* change, such as PENDING to FAILED or one out of SUCCEEDED, occurs.
C4_OnlyDocumentedChanges ==
    [][ent'.status # ent.status =>
          /\ <<ent.status, ent'.status>> \in DocumentedChanges
          /\ ent.status = FAILED => entCall'.op = "retry"]_vars

\* C4 as amended: the status changes that occur are the documented ones and
\* PENDING to FAILED, which fail() alone makes; FAILED to PENDING is made by
\* retry() alone; nothing leaves SUCCEEDED.
C4_StatusChanges ==
    [][ent'.status # ent.status =>
          /\ <<ent.status, ent'.status>> \in DocumentedChanges \cup {<<PENDING, FAILED>>}
          /\ ent.status = FAILED => entCall'.op = "retry"
          /\ (ent.status = PENDING /\ ent'.status = FAILED) => entCall'.op = "fail"]_vars

\* fail() has taken a PENDING job to FAILED
C4_Witness ==
    /\ entCall.op = "fail" /\ ~entCall.thrown
    /\ entPrev.status = PENDING /\ ent.status = FAILED

RunningOnly == {"updateProgress", "succeed", "markForRetry", "setPrUrl", "setCoverage"}

\* the status the operation does not accept
WrongState(op, status) ==
    \/ op \in RunningOnly /\ status # RUNNING
    \/ op = "start" /\ status \notin {PENDING, RETRY}
    \/ op = "retry" /\ status # FAILED

\* C5: updateProgress, succeed, markForRetry, setPrUrl and setCoverage throw
\* unless the job is RUNNING, start throws unless it is PENDING or RETRY, retry
\* throws unless it is FAILED; the throw yields no new revision.
C5_WrongStateThrows ==
    WrongState(entCall.op, entPrev.status) => entCall.thrown /\ ent = entPrev

\* a guarded operation threw on a job in a wrong state and left it as it was:
\* setCoverage on a SUCCEEDED job
C5_Witness ==
    /\ entCall.op = "setCoverage" /\ entCall.thrown
    /\ entPrev.status = SUCCEEDED /\ ent = entPrev

\* C6: markForRetry(reason, maxAttempts) of a RUNNING job returns a job whose
\* attemptCount is the old one plus 1, whose status is FAILED if and only if the
\* old attemptCount + 1 >= maxAttempts and RETRY otherwise, and whose progress,
\* branchName, prUrl and coverage fields are the old ones.
C6_MarkForRetry ==
    (entCall.op = "markForRetry" /\ entPrev.status = RUNNING) =>
        /\ ~entCall.thrown
        /\ ent.attemptCount = entPrev.attemptCount + 1
        /\ ent.status = IF entPrev.attemptCount + 1 >= entCall.arg THEN FAILED ELSE RETRY
        /\ ent.progress = entPrev.progress
        /\ ent.branchName = entPrev.branchName
        /\ ent.prUrl = entPrev.prUrl
        /\ ent.coverageBefore = entPrev.coverageBefore
        /\ ent.coverageAfter = entPrev.coverageAfter

\* markForRetry met the limit exactly: attempt 2 of 2 gives FAILED
C6_Witness ==
    /\ entCall.op = "markForRetry" /\ ~entCall.thrown
    /\ entPrev.status = RUNNING /\ entPrev.attemptCount = 1 /\ entCall.arg = 2
    /\ ent.status = FAILED /\ ent.attemptCount = 2

----------------------------------------------------------------------------
(* Properties of the pipeline (checked under SpecExec) *)

\* the first k executions of job n all failed in the generation stage and were
\* handled by the catch block
FailedInGeneration(n, k) ==
    \A i \in 1..k : ended[n][i].at = "generate" /\ ended[n][i].outcome = "handled"

----------------------------------------------------------------------------
(* Properties of the service as wired (checked under Spec) *)

\* C11: whenever a stage of executeJob, or the repository lookup before stage
\* 1, throws, the job's persisted status once executeJob has ended is RETRY or
\* FAILED, never still RUNNING, and the persisted log ends with an error line
\* carrying the error message.
C11_FailureEndsInRetryOrFailed ==
    \A n \in Rows : \A k \in 1..Len(ended[n]) :
        (ended[n][k].outcome # "succeeded" /\ ended[n][k].at # "create") =>
            /\ ended[n][k].status \in {RETRY, FAILED}
            /\ ended[n][k].errorLogged


-----------------------------------------------------------------------------
(* Properties of the workspace of an execution (checked under SpecExec) *)

\* the workspace of the execution is gone and is not tracked
Removed(f_fs, f_tracked, dir) == ~exists(f_fs, dir) /\ dir \notin f_tracked

\* C12: whenever executeJob ends, by success or by a failure at any stage
\* (a failure inside the failure handler included), the workspace directory it
\* created no longer exists and is no longer in the tracked set.
C12_WorkspaceRemovedAtEnd ==
    [][\A f \in fin : f \notin fin' => Removed(fs', tracked', f.tmpDir)]_vars

\* C12 as the code has it: when executeJob ends the workspace it created is gone
\* and untracked unless fs.rm rejected; a rejection is caught and logged, the
\* directory then still exists and stays tracked, and in both cases the job table
\* and the recorded outcome of the execution are left as the handler put them.
C12_WorkspaceRemovedUnlessRmRejects ==
    [][\A f \in fin : f \notin fin' =>
          /\ IF fsFaults' = fsFaults
             THEN Removed(fs', tracked', f.tmpDir)
             ELSE exists(fs', f.tmpDir) /\ f.tmpDir \in tracked' /\ fs' = fs
          /\ store' = store /\ ended' = ended]_vars

\* an execution whose failure handler itself failed has ended and its workspace
\* is gone, after an earlier execution of the job left its workspace behind
\* because fs.rm rejected
C12_Witness ==
    /\ fin = {}
    /\ fsFaults = 1
    /\ \E n \in Rows :
        /\ Len(ended[n]) >= 2
        /\ \E k \in 1..Len(ended[n]) :
            ended[n][k].outcome = "rejected" /\ ended[n][k].at # "create"
        /\ \E k \in 1..Len(ended[n]) : ended[n][k].outcome = "handled"
    /\ Cardinality(tracked) = 1
    /\ \A d \in tracked : exists(fs, d)


\* the errors that come from a collaborator of the pipeline (repository lookup,
\* git, coverage run, AI CLI, GitHub, the job table), as opposed to the guards of
\* the ImprovementJob operations
CollaboratorErrors ==
    {"Repository not found", "findById failed", "cloneRepo failed", "updateJob failed",
     "gatherContextFiles failed", "generateTests failed", "AI test generation failed",
     "AI did not generate any test files", "checkout or commit failed", "push failed",
     "createPullRequest failed"}

\* C13: scenario A: a PENDING job whose lock a poll tick acquires and whose
\* clone, coverage runs, generation, push and pull-request creation all succeed
\* ends persisted as SUCCEEDED with progress 100 and a non-null prUrl (its
\* workspace removed): an execution that no collaborator failed ends that way.
C13_ScenarioAEndsSucceeded ==
    \A n \in Rows : \A k \in 1..Len(ended[n]) :
        (ended[n][k].at # "create" /\ ended[n][k].err \notin CollaboratorErrors) =>
            /\ ended[n][k].outcome = "succeeded"
            /\ ended[n][k].status = SUCCEEDED
            /\ ended[n][k].progress = 100
            /\ ended[n][k].prUrl # Null


\* the executeJob call dispatched for row k has not ended (its finally block
\* included)
InFlight(k) == exec[k] # NoExec \/ \E f \in fin : f.job = k

\* C14: of two PENDING jobs of one repository a poll tick moves one to RUNNING
\* and leaves the other PENDING and unchanged, and once the pipeline of the
\* running job has completed a later poll tick acquires the lock for the other:
\* tryAcquireLock refuses an executable job because of a RUNNING job of its
\* repository only while the pipeline of such a job has not completed.
C14_RefusedOnlyWhilePipelineRuns ==
    [][\A w \in Workers :
          (wpc[w] = "txCheck" /\ wpc'[w] = "loop" /\ wres'[w].done /\ ~wres'[w].ok) =>
              \E k \in Rows : /\ store[k].repositoryId = wres'[w].repositoryId
                              /\ store[k].status = RUNNING
                              /\ InFlight(k)]_vars


-----------------------------------------------------------------------------
(* Properties of TempDirectoryService (checked under SpecTmp) *)

\* the path names a place inside the base directory
InsideBase(path) ==
    LET p == resolve(path) IN p # resolve(baseDir) /\ Within(p, baseDir)

Repeated == tmpCall.op = "cleanup" /\ tmpCall'.op = "cleanup" /\ tmpCall'.path = tmpCall.path

\* C16: cleanup is idempotent and never throws: a second call with the same
\* path, and a call with a path inside the base directory that does not exist,
\* complete normally and leave the file system and the tracked set as they were
\* after the first call.
C16_CleanupIdempotent ==
    [][/\ Repeated => (~tmpCall'.threw /\ fs' = fs /\ tracked' = tracked)
       /\ (tmpCall'.op = "cleanup" /\ InsideBase(tmpCall'.path)
             /\ ~exists(fs, tmpCall'.path)) =>
               (~tmpCall'.threw /\ fs' = fs /\ tracked' = tracked \ {tmpCall'.path})]_vars

\* C16 as the code has it: no cleanup call throws; a call with a path under the
\* base that does not exist changes no directory and untracks the path; a second
\* call with the same path changes nothing when the first call's fs.rm did not
\* reject, and when it did reject (caught and logged, the directory left in place
\* and tracked) the second call removes and untracks the directory.
C16_CleanupIdempotentUnlessRmRejected ==
    [][/\ tmpCall'.op = "cleanup" => ~tmpCall'.threw
       /\ (Repeated /\ ~tmpCall.failed) => (fs' = fs /\ tracked' = tracked)
       /\ (Repeated /\ tmpCall.failed /\ ~tmpCall'.failed) =>
               Removed(fs', tracked', tmpCall'.path)
       /\ (tmpCall'.op = "cleanup" /\ InsideBase(tmpCall'.path)
             /\ ~exists(fs, tmpCall'.path)) =>
               (fs' = fs /\ tracked' = tracked \ {tmpCall'.path})]_vars

\* a cleanup call has removed and untracked a directory made by create(), in a
\* behaviour in which one fs.rm call rejected
C16_Witness ==
    /\ tmpCall.op = "cleanup"
    /\ tmpCall.path = join(baseDir, DirName("job", 1))
    /\ ~tmpCall.failed
    /\ clock >= 1
    /\ fsFaults = 1
    /\ Removed(fs, tracked, tmpCall.path)
    /\ exists(fs, baseDir)


\* the age in hours of a directory directly under the base directory
AgeOf(name) == hour - fs[resolve(EntryPath(name))]

\* the entry is as it was: same directory, same mtime, same tracking
Untouched(name) ==
    LET p == resolve(EntryPath(name))
    IN  /\ p \in DOMAIN fs' /\ fs'[p] = fs[p]
        /\ (EntryPath(name) \in tracked') = (EntryPath(name) \in tracked)

-----------------------------------------------------------------------------
(* Properties of the supervisors of external commands (checked under SpecProc) *)

\* the command ran longer than the timeout: the timeout callback ran
RanLongerThanTimeout == proc.kind # "none" /\ proc.timedOut

\* C18: for a command that runs longer than the timeout the supervisor's run
\* ends no later than the timeout plus the 5-second grace window, and its
\* outcome is never reported as success (never exit code 0, never a successful
\* AiRunResult).
C18_TimeoutEndsWithinGrace ==
    RanLongerThanTimeout =>
        /\ proc.now > proc.timeout + GraceSeconds => proc.settled
        /\ proc.settled =>
              /\ proc.result.type = "result" => proc.result.exitCode # "0"
              /\ proc.ai # "success"

\* C19: DockerAdapter.run returns a result value carrying the non-zero exit code
\* and the captured stdout and stderr whenever the command exits with a non-zero
\* code, and it raises an error only when the process could not be spawned.
C19_RunRaisesOnlyOnSpawnFailure ==
    (proc.kind = "docker" /\ proc.settled) =>
        /\ (proc.child = "dead" /\ proc.code \notin {"0", "null"} /\ ~proc.timedOut) =>
              /\ proc.result.type = "result"
              /\ proc.result.exitCode = proc.code
              /\ proc.result.stdout = trim(proc.stdout)
              /\ proc.result.stderr = trim(proc.stderr)
        /\ proc.result.type = "raised" <=> proc.child = "unspawned"


-----------------------------------------------------------------------------
(* Properties of the attempt counter (checked under SpecExec) *)

\* C20: over any sequence of job operations and persisted writes (lock
\* acquisition, progress and log updates, markForRetry, fail, succeed, retry) a
\* job's attemptCount never decreases: no step lowers the attemptCount of a
\* persisted job or of the revision an operation returns.
C20_AttemptCountNeverDecreases ==
    [][/\ \A n \in Rows :
            n \in DOMAIN store' /\ store'[n].attemptCount >= store[n].attemptCount
       /\ ent'.attemptCount >= ent.attemptCount]_vars

\* the job has been locked again after a failed attempt was marked for retry,
\* and an execution started from the revision fetched before the lock has ended
\* without a write
C20_Witness ==
    \E n \in Rows :
        /\ store[n].attemptCount >= 3
        /\ \E k \in 1..Len(ended[n]) : ended[n][k].outcome = "handled"
        /\ \E k \in 1..Len(ended[n]) :
            /\ ended[n][k].outcome = "rejected"
            /\ ended[n][k].err = "Only RUNNING jobs can have progress updated"

-----------------------------------------------------------------------------
(* Properties of JobSerializer (C21, C22 under SpecSer) *)

\* the entries of repository r in a Map
EntriesOf(m, r) == {e \in m : e[1] = r}

\* the last step was the call `op`
SerStep(op) == serCall'.op = op

\* C21: after any sequence of acquireLock, releaseLock, forceReleaseLock and
\* releaseAllLocks calls each repository has at most one lock token (stored
\* under its own id); acquireLock on a locked repository throws and leaves the
\* existing token, holder and acquiredAt, as it was; acquireLock, releaseLock
\* and forceReleaseLock on one repository never change another repository's lock.
C21_OneTokenPerRepository ==
    /\ [](\A e1, e2 \in locks : e1[1] = e2[1] => e1 = e2)
    /\ [](\A e \in locks : e[2].repositoryId = e[1])
    /\ [][(SerStep("acquireLock") /\ MapHas(locks, serCall'.repositoryId))
              => (serCall'.threw /\ locks' = locks)]_vars
    /\ [][(SerStep("acquireLock") \/ SerStep("releaseLock") \/ SerStep("forceReleaseLock"))
              => \A r \in RepositoryIds \ {serCall'.repositoryId} :
                     EntriesOf(locks', r) = EntriesOf(locks, r)]_vars

\* acquireLock was refused on a locked repository, at a later time than that
\* lock was taken, while the other repository is locked too
C21_Witness ==
    /\ serCall.op = "acquireLock"
    /\ serCall.threw
    /\ serCall.result = "is locked by job"
    /\ Cardinality(locks) = 2
    /\ MapGet(locks, serCall.repositoryId).acquiredAt < clock
    /\ MapGet(locks, serCall.repositoryId).jobId # serCall.jobId

\* the current holder of repository r is job j
HeldBy(m, r, j) == MapHas(m, r) /\ MapGet(m, r).jobId = j

\* what releaseLock(r, j) does when r has a lock: release by the holder, a throw
\* for any other job; and a repository just released can be acquired by any job
ReleaseOfLocked ==
    /\ [][(SerStep("releaseLock") /\ HeldBy(locks, serCall'.repositoryId, serCall'.jobId))
              => (/\ ~serCall'.threw
                  /\ serCall'.result = "true"
                  /\ ~MapHas(locks', serCall'.repositoryId))]_vars
    /\ [][(SerStep("releaseLock") /\ serCall'.result = "true")
              => HeldBy(locks, serCall'.repositoryId, serCall'.jobId)]_vars
    /\ [][(/\ SerStep("releaseLock")
           /\ MapHas(locks, serCall'.repositoryId)
           /\ ~HeldBy(locks, serCall'.repositoryId, serCall'.jobId))
              => (serCall'.threw /\ locks' = locks)]_vars
    /\ [][(/\ serCall.op = "releaseLock" /\ serCall.result = "true"
           /\ SerStep("acquireLock")
           /\ serCall'.repositoryId = serCall.repositoryId
           /\ ~Blank(serCall'.jobId))
              => (/\ ~serCall'.threw
                  /\ HeldBy(locks', serCall'.repositoryId, serCall'.jobId))]_vars

\* C22: releaseLock(repo, job) removes the lock and returns true only when job is
\* the current holder; it returns false and changes nothing when the repository
\* has no lock; it throws and leaves the lock in place when another job holds
\* it; after a successful release the repository can be acquired by a different
\* job.
C22_ReleaseLock ==
    /\ ReleaseOfLocked
    /\ [][(SerStep("releaseLock") /\ ~MapHas(locks, serCall'.repositoryId))
              => (~serCall'.threw /\ serCall'.result = "false" /\ locks' = locks)]_vars

\* C22 as the code has it: the same, except that releaseLock with an empty or
\* blank repository id (which never has a lock) throws instead of returning
\* false; it changes nothing either way.
C22_ReleaseLockUnlessBlankId ==
    /\ ReleaseOfLocked
    /\ [][(SerStep("releaseLock") /\ ~MapHas(locks, serCall'.repositoryId))
              => (/\ locks' = locks
                  /\ serCall'.threw = Blank(serCall'.repositoryId)
                  /\ ~serCall'.threw => serCall'.result = "false")]_vars

\* a job other than the releasing one has acquired the repository right after
\* its release by the holder
C22_Witness ==
    /\ serCall.op = "acquireLock"
    /\ ~serCall.threw
    /\ \E j \in JobIds \ {serCall.jobId} :
          serCall.justReleased = <<serCall.repositoryId, j>>
    /\ HeldBy(locks, serCall.repositoryId, serCall.jobId)

-----------------------------------------------------------------------------
(* Property of RequestImproveFileUseCase (C23 under SpecReq) *)

\* C23: a job created through RequestImproveFileUseCase is stored as PENDING with
\* progress 0, attemptCount 0 and null branchName and prUrl, and getJob called
\* with the id returned to the caller returns that same job (same repositoryId,
\* filePath and requestedBy).
C23_CreatedJobIsFound ==
    (reqCall.op = "execute" /\ ~reqCall.threw)
        => \E got \in {getJob(store, reqCall.id)} :
              /\ got.id # NoRow.id
              /\ got.status = PENDING
              /\ got.progress = 0
              /\ got.attemptCount = 0
              /\ got.branchName = Null
              /\ got.prUrl = Null
              /\ got.repositoryId = reqCall.repositoryId
              /\ got.filePath = reqCall.filePath
              /\ got.requestedBy = reqCall.requestedBy

-----------------------------------------------------------------------------
(* Property of the shared git adapter (C24 under SpecGit) *)

-----------------------------------------------------------------------------
(* Properties of the stages of one pipeline (C25 .. C28 under SpecExec) *)

\* C25: in every persisted state, status SUCCEEDED implies a non-null prUrl and
\* progress 100; the write that sets SUCCEEDED finds the row RUNNING with that
\* prUrl already recorded by an earlier write; and whenever the pipeline stands
\* between the two writes (where a crash would stop it) the persisted job is
\* RUNNING with prUrl recorded.
C25_PrUrlRecordedBeforeSucceeded ==
    /\ [](\A n \in Rows :
            store[n].status = SUCCEEDED => store[n].prUrl # Null /\ store[n].progress = 100)
    /\ [][\A n \in Rows :
            (store[n].status # SUCCEEDED /\ store'[n].status = SUCCEEDED)
                => /\ store[n].status = RUNNING
                   /\ store[n].prUrl # Null
                   /\ store'[n].prUrl = store[n].prUrl]_vars
    /\ [](\A n \in Rows :
            exec[n].pc = <<"pullRequest", 3>>
                => store[n].status = RUNNING /\ store[n].prUrl # Null)

\* a pipeline has ended in success and its job is persisted as SUCCEEDED
C25_Witness ==
    \E n \in Rows :
        /\ store[n].status = SUCCEEDED
        /\ store[n].prUrl = <<"pr", n, 1>>
        /\ \E i \in DOMAIN ended[n] : ended[n][i].outcome = "succeeded"

\* the stages of executeJob in the order of its statements and the progress each
\* persists on entry; the pull request stage enters at 90 and ends at 100
StageOrder == <<"clone", "baseline", "generate", "verify", "commit", "pullRequest">>
StageProgress == <<5, 25, 50, 75, 90, 90>>
StageIndex(stage) == CHOOSE i \in DOMAIN StageOrder : StageOrder[i] = stage
IsStage(stage) == \E i \in DOMAIN StageOrder : StageOrder[i] = stage

\* the positions at which a stage calls its external collaborator (git, the
\* coverage run, the file reads and the AI CLI, the GitHub API)
CollaboratorCall(pc) ==
    \/ pc[2] = 2 /\ IsStage(pc[1])
    \/ pc[2] = 3 /\ pc[1] \in {"generate", "commit"}

\* C26: within one pipeline execution the stages run strictly in the order
\* clone, baseline coverage, generation, verification, commit and push, pull
\* request: a stage is entered only from the stage before it, once that one has
\* returned its revision; the progress persisted by the stages is 5, 25, 50, 75,
\* 90 and finally 100; and whenever a stage is about to call its external
\* collaborator the stage's progress/log revision is the persisted row.
C26_StagesInOrderAndPersistedFirst ==
    /\ [][\A n \in Rows :
            (IsStage(exec'[n].pc[1]) /\ exec'[n].pc[1] # exec[n].pc[1])
                => /\ exec'[n].pc[2] = 1
                   /\ IF exec'[n].pc[1] = "clone" THEN exec[n].pc[1] = "findRepo"
                      ELSE /\ IsStage(exec[n].pc[1])
                           /\ StageIndex(exec'[n].pc[1]) = StageIndex(exec[n].pc[1]) + 1
                           /\ exec'[n].job = exec'[n].updatedJob]_vars
    /\ [][\A n \in Rows :
            (IsStage(exec[n].pc[1]) /\ store'[n].progress # store[n].progress)
                => \/ /\ exec[n].pc[2] = 1
                      /\ store'[n].progress = StageProgress[StageIndex(exec[n].pc[1])]
                   \/ /\ exec[n].pc = <<"pullRequest", 3>>
                      /\ store[n].progress = 90
                      /\ store'[n].progress = 100]_vars
    /\ [](\A n \in Rows :
            CollaboratorCall(exec[n].pc)
                => /\ store[n] = exec[n].updatedJob
                   /\ store[n].status = RUNNING
                   /\ store[n].progress = StageProgress[StageIndex(exec[n].pc[1])])

\* a pipeline is about to call the GitHub API, all five stages before it done
C26_Witness ==
    \E n \in Rows :
        /\ exec[n].pc = <<"pullRequest", 2>>
        /\ store[n].progress = 90
        /\ store[n].logs[Len(store[n].logs)][2] = "Creating pull request..."

CoverageStages == {"baseline", "verify"}
FailedLines == {"Baseline coverage failed (may be no existing tests)",
                "Test verification warning (will create draft PR)"}

\* the texts of the log lines of a revision
Texts(job) == {job.logs[i][2] : i \in DOMAIN job.logs}

\* C27: if the coverage measurement throws in the baseline stage or in the
\* verification stage, the pipeline appends a log line (a), persists it with the
\* job still RUNNING (b) and proceeds to the next stage (c), as long as no write
\* to the job table rejects; a failed measurement by itself never reaches the
\* failure handler, which is what moves a job to RETRY or FAILED (d).
C27_CoverageFailureIsLogged ==
    /\ [][\A n \in Rows :
            (/\ exec[n].pc[1] \in CoverageStages /\ exec[n].pc[2] = 2
             /\ exec'[n].pc = <<exec[n].pc[1], 3>>
             /\ dbFaults' = dbFaults)
                => /\ exec'[n].updatedJob.status = RUNNING
                   /\ Len(exec'[n].updatedJob.logs) = Len(exec[n].updatedJob.logs) + 1
                   /\ exec'[n].updatedJob.logs[Len(exec'[n].updatedJob.logs)][2] \in FailedLines
                   /\ store' = store]_vars
    /\ [][\A n \in Rows :
            (/\ exec[n].pc[1] \in CoverageStages /\ exec[n].pc[2] = 3
             /\ dbFaults' = dbFaults /\ exec'[n] # exec[n])
                => /\ exec'[n].pc = <<exec[n].pc[1], 4>>
                   /\ store'[n] = exec[n].updatedJob
                   /\ store'[n].status = RUNNING]_vars
    /\ [][\A n \in Rows :
            (/\ exec[n].pc[1] \in CoverageStages /\ exec[n].pc[2] = 4
             /\ dbFaults' = dbFaults /\ exec'[n] # exec[n])
                => /\ exec'[n].pc = <<StageOrder[StageIndex(exec[n].pc[1]) + 1], 1>>
                   /\ store'[n].status = RUNNING]_vars
    /\ [](\A n \in Rows :
            (exec[n].pc[1] = "catch" /\ exec[n].at \in CoverageStages)
                => exec[n].err = "updateJob failed")

\* both measurements threw and the job still ended SUCCEEDED
C27_Witness ==
    \E n \in Rows :
        /\ store[n].status = SUCCEEDED
        /\ FailedLines \subseteq Texts(store[n])
        /\ store[n].coverageBefore = NullNum
        /\ store[n].coverageAfter = NullNum


\* the two hard failures of generateTests: the generator reported failure, or
\* reported success with no created and no modified files
GeneratorFailures == {"AI test generation failed", "AI did not generate any test files"}

\* the endings of executeJob calls that one of the two failures caused
GeneratorEndings(n) ==
    {i \in DOMAIN ended[n] :
        ended[n][i].at = "generate" /\ ended[n][i].err \in GeneratorFailures}

\* C28: when the generator reports failure, or success without a created or a
\* modified file, the pipeline goes from generation straight to the failure
\* handler without a write (a) and the handler ends the attempt (b), so that no
\* commit, push or pull request step is entered, these being entered only from
\* a finished verification (c) and the attempt's pull request url is never
\* recorded (d); the handler applies the retry policy: its accepted write leaves
\* the job RETRY below the attempt ceiling and FAILED from the ceiling on, never
\* FAILED below it (e), and a rejected write leaves the row RUNNING (f).
C28_GeneratorFailureIsRetried ==
    /\ [][\A n \in Rows :
            (/\ exec[n].pc = <<"generate", 3>>
             /\ exec'[n].pc[1] = "catch"
             /\ exec'[n].err \in GeneratorFailures)
                => exec'[n].at = "generate" /\ store' = store]_vars
    /\ [][\A n \in Rows :
            (exec[n].pc[1] = "catch" /\ exec'[n] # exec[n]) => exec'[n] = NoExec]_vars
    /\ [][\A n \in Rows :
            (/\ exec'[n].pc[1] \in {"commit", "pullRequest"}
             /\ exec[n].pc[1] \notin {"commit", "pullRequest"})
                => exec[n].pc = <<"verify", 4>>]_vars
    /\ [](\A n \in JobSlots : \A i \in GeneratorEndings(n) :
            /\ ended[n][i].prUrl # <<"pr", n, ended[n][i].run>>
            /\ ended[n][i].status = FAILED => ended[n][i].attemptCount >= MAX_ATTEMPTS
            /\ ended[n][i].outcome = "handled"
                => ended[n][i].status = IF ended[n][i].attemptCount < MAX_ATTEMPTS
                                        THEN RETRY ELSE FAILED
            /\ ended[n][i].outcome # "handled" => ended[n][i].status = RUNNING)

\* one attempt that the generator failed has ended in RETRY and a later one,
\* which produced no files, in FAILED
C28_Witness ==
    \E n \in Rows : \E i, j \in GeneratorEndings(n) :
        /\ i < j
        /\ ended[n][i].err = "AI test generation failed"
        /\ ended[n][i].status = RETRY
        /\ ended[n][j].err = "AI did not generate any test files"
        /\ ended[n][j].status = FAILED


\* a timer tick, and a poll() call returning
Ticked == polls'.ticks = polls.ticks + 1
PollReturned == polls'.last # polls.last

\* C29: at most one poll() call of an instance is in flight at a time (a), and
\* isProcessing is set exactly while one is (b).  A tick that arrives while a
\* call is in flight changes nothing but the count of ticks: it fetches nothing,
\* dispatches nothing and leaves no call behind to run later (c); a call starts
\* only at a tick (d).  When a call returns, by the empty list, after the loop
\* (per-job errors included) or by a fetch error, the flag is clear (e), so a
\* tick that arrives with no call in flight starts one (f).
C29_OnePollAtATime ==
    /\ [](Cardinality(polls.live) <= 1)
    /\ [](isProcessing[Poller] <=> polls.live # {})
    /\ [][(Ticked /\ polls.live # {})
            => /\ polls'.live = polls.live
               /\ polls'.last = polls.last
               /\ polls'.skipped = polls.skipped + 1
               /\ <<store, exec, isProcessing, dbFaults>>' = <<store, exec, isProcessing, dbFaults>>]_vars
    /\ [][(\E p \in polls'.live : \A q \in polls.live : q.tick # p.tick) => Ticked]_vars
    /\ [][PollReturned
            => /\ polls'.last.path \in {"empty", "loop", "fetchError"}
               /\ ~isProcessing'[Poller]
               /\ polls'.live = {}]_vars
    /\ [][(Ticked /\ polls.live = {})
            => /\ polls'.live = {NewPoll(polls'.ticks)}
               /\ polls'.skipped = polls.skipped]_vars

\* a tick was skipped, the poll in flight then ended by a fetch error, and the
\* next tick started a poll that fetched jobs
C29_Witness ==
    /\ polls.skipped > 0
    /\ polls.last.path = "fetchError"
    /\ \E p \in polls.live : p.pc = "loop" /\ p.tick > polls.last.tick


\* the poll() call in flight
ThePoll == CHOOSE p \in polls.live : TRUE

\* C30: in the loop of one tick, each turn takes the first job not yet tried,
\* records its lock attempt and leaves the remaining jobs for the next turns,
\* whether tryAcquireLock returned or threw (a); an executeJob call that ends,
\* rejected or not, changes nothing in the poll (b); so the loop only ends with
\* a lock attempt made for every job the tick fetched, in the fetched order (c).
C30_JobErrorDoesNotStopTick ==
    /\ [][(/\ polls.live # {}
           /\ ThePoll.pc = "loop"
           /\ ThePoll.jobs # <<>>
           /\ polls'.live # polls.live)
            => /\ polls'.live = {[ThePoll EXCEPT
                                    !.jobs = Tail(@),
                                    !.attempted = Append(@, Head(ThePoll.jobs).id),
                                    !.threw = IF dbFaults' = dbFaults THEN @
                                              ELSE Append(@, Head(ThePoll.jobs).id)]}
               /\ isProcessing'[Poller]]_vars
    /\ [][ended' # ended => polls' = polls /\ isProcessing' = isProcessing]_vars
    /\ [](polls.last.path = "loop" => polls.last.attempted = polls.last.fetched)
    /\ [](\A p \in polls.live :
            p.pc = "loop"
                => p.fetched = p.attempted \o IdsOf(p.jobs))

\* a tick fetched two jobs: tryAcquireLock threw for the first, the second was
\* locked and dispatched, its executeJob call was rejected, and the tick ended
C30_Witness ==
    /\ polls.last.path = "loop"
    /\ Len(polls.last.fetched) = 2
    /\ polls.last.threw = <<polls.last.fetched[1]>>
    /\ \E n \in Rows :
        /\ store[n].id = polls.last.fetched[2]
        /\ store[n].status = RUNNING
        /\ ended[n] # <<>>
        /\ ended[n][1].outcome = "rejected"


\* C31: the turn of the loop that acquires a job's lock and calls executeJob
\* leaves that call in flight, at its first await, and the loop at the next
\* fetched job (a); a step of a call in flight changes nothing in the poll (b),
\* and the tick ends, after a lock attempt for every fetched job, without
\* touching the calls in flight (c).
C31_TickDoesNotWaitForPipeline ==
    /\ [][\A n \in Rows :
            (store[n].status # RUNNING /\ store'[n].status = RUNNING)
                => /\ exec'[n].pc = <<"create", 1>>
                   /\ polls.live # {}
                   /\ polls'.live = {[ThePoll EXCEPT
                                        !.jobs = Tail(@),
                                        !.attempted = Append(@, Head(ThePoll.jobs).id)]}]_vars
    /\ [][(\E n \in JobSlots : exec[n].pc[1] # "none" /\ exec'[n] # exec[n])
            => polls' = polls /\ isProcessing' = isProcessing]_vars
    /\ [][(polls.live # {} /\ polls'.live = {})
            => /\ exec' = exec
               /\ polls'.last.path = "loop" => polls'.last.attempted = polls'.last.fetched]_vars

\* a tick has ended after dispatching the jobs of two repositories: both are
\* RUNNING and both executeJob calls are still in flight, the first one past
\* its workspace creation and the second one not yet
C31_Witness ==
    /\ polls.live = {}
    /\ polls.last.path = "loop"
    /\ \E n, k \in Rows :
        /\ store[n].repositoryId # store[k].repositoryId
        /\ store[n].status = RUNNING /\ store[k].status = RUNNING
        /\ polls.last.attempted = <<store[n].id, store[k].id>>
        /\ exec[n].pc[1] \in {"findRepo", "clone"}
        /\ exec[k].pc = <<"create", 1>>


\* a create() call has just returned a path, or has just thrown
CreateReturned == tmpCall'.op = "create" /\ clock' = clock + 1 /\ tmpCall'.ok
CreateThrew == tmpCall'.op = "create" /\ clock' = clock + 1 /\ ~tmpCall'.ok

\* C32: when create() returns a path, the path is tracked, its directory exists
\* and lies inside the base directory (a), and no earlier create() call returned
\* it: in particular it was not in the tracked set, which holds only paths that
\* create() returned (b); a create() call that throws tracks nothing (c).
C32_CreatedPathsTrackedAndDistinct ==
    /\ [][CreateReturned
            => /\ tmpCall'.path \in tracked'
               /\ resolve(tmpCall'.path) \in DOMAIN fs'
               /\ Within(resolve(tmpCall'.path), baseDir)
               /\ resolve(tmpCall'.path) # resolve(baseDir)]_vars
    /\ [][CreateReturned => tmpCall'.path \notin tracked]_vars
    /\ [][CreateThrew => tracked' = tracked]_vars


\* onModuleDestroy completes
DestroyCompletes == life.destroy = "running" /\ life'.destroy = "done"

\* C33 as stated: when onModuleDestroy completes the sweep timer is stopped, no
\* directory that was tracked when it was called exists any more and the
\* tracked set is empty.
C33_DestroyCleansEverything ==
    [][DestroyCompletes
        => /\ ~life'.cleanupInterval
           /\ \A dir \in life.found : ~exists(fs', dir)
           /\ tracked' = {}]_vars

\* C33, amended: from the call of onModuleDestroy on the sweep timer is stopped
\* and no sweep is started by it (a); cleanupAll settles one cleanup call for
\* each directory that was tracked at the call: the directory is gone and
\* untracked after it, or fs.rm rejected and it still exists and stays tracked
\* (b); so when onModuleDestroy completes, the tracked set holds only
\* directories whose fs.rm rejected and directories that create() returned
\* while it was in progress, and every other directory found tracked at the
\* call no longer exists (c).
C33_DestroyCleansUnlessRmRejectsOrCreated ==
    /\ [](life.destroy # "none" => ~life.cleanupInterval)
    /\ [][(/\ tmpCall'.op = "cleanupOld"
           /\ <<tmpCall, fs, tracked, fsFaults>>' # <<tmpCall, fs, tracked, fsFaults>>)
            => life.cleanupInterval /\ life.destroy = "none"]_vars
    /\ [][(life.destroy = "running" /\ life'.pending # life.pending)
            => \E dir \in life.pending :
                /\ life'.pending = life.pending \ {dir}
                /\ IF dir \in life'.failed
                   THEN fs' = fs /\ tracked' = tracked /\ (exists(fs, dir) => dir \in tracked)
                   ELSE ~exists(fs', dir) /\ dir \notin tracked']_vars
    /\ [][DestroyCompletes
            => /\ life.pending = {}
               /\ tracked' \subseteq (life.failed \cup life.created)
               /\ \A dir \in life.found \ (life.failed \cup life.created) :
                    ~exists(fs', dir)]_vars

\* onModuleDestroy has completed after finding two directories tracked: fs.rm
\* rejected for one, which still exists and is the only tracked directory, and
\* the other one is gone
C33_Witness ==
    /\ life.destroy = "done"
    /\ tmpCall.op = "none"
    /\ Cardinality(life.found) = 2
    /\ Cardinality(life.failed) = 1
    /\ tracked = life.failed
    /\ \A dir \in life.found : exists(fs, dir) <=> dir \in life.failed


\* the timeout callback, and the force-kill callback 5 seconds after it, runs
TimeoutFires == proc.kind # "none" /\ ~proc.timedOut /\ proc'.kind # "none" /\ proc'.timedOut
GraceFires == proc.kind # "none" /\ ~proc.graceDone /\ proc'.kind # "none" /\ proc'.graceDone

\* C34: under both supervisors, the timeout callback sends SIGTERM to the
\* process (a); the force-kill callback runs 5 seconds later and sends SIGKILL
\* if the process has not exited by then, and nothing if it has (b); SIGKILL is
\* sent by nothing else (c).
C34_TermThenKillAfterGrace ==
    /\ [][TimeoutFires
            => /\ proc.now = proc.timeout
               /\ proc.child = "alive" => proc'.sent = {"SIGTERM"}]_vars
    /\ [][GraceFires
            => /\ proc.now = proc.timeout + GraceSeconds
               /\ "SIGKILL" \in proc'.sent <=> proc.child = "alive"]_vars
    /\ [][(proc.kind # "none" /\ proc'.kind # "none" /\ proc'.sent # proc.sent)
            => TimeoutFires \/ GraceFires]_vars


\* C35: retry() applied to a FAILED job returns a PENDING job with progress 0,
\* with branchName, prUrl, coverageBefore and coverageAfter null, with the
\* attemptCount, id, repositoryId, filePath, requestedBy and createdAt of the
\* FAILED job, and with its log extended by exactly one line.
C35_RetryResetsFailedJob ==
    (entCall.op = "retry" /\ ~entCall.thrown)
        => /\ entPrev.status = FAILED
           /\ ent.status = PENDING
           /\ ent.progress = 0
           /\ ent.branchName = Null /\ ent.prUrl = Null
           /\ ent.coverageBefore = NullNum /\ ent.coverageAfter = NullNum
           /\ ent.attemptCount = entPrev.attemptCount
           /\ ent.id = entPrev.id
           /\ ent.repositoryId = entPrev.repositoryId
           /\ ent.filePath = entPrev.filePath
           /\ ent.requestedBy = entPrev.requestedBy
           /\ ent.createdAt = entPrev.createdAt
           /\ Len(ent.logs) = Len(entPrev.logs) + 1
           /\ SubSeq(ent.logs, 1, Len(entPrev.logs)) = entPrev.logs
           /\ ent.logs[Len(ent.logs)][1] = "Job retry requested"

\* retry() has returned for a FAILED job that had progress, a branch, a pull
\* request url, a coverage value and attempts counted
C35_Witness ==
    /\ entCall.op = "retry" /\ ~entCall.thrown
    /\ entPrev.status = FAILED
    /\ entPrev.progress > 0
    /\ entPrev.branchName # Null
    /\ entPrev.prUrl # Null
    /\ entPrev.coverageBefore # NullNum
    /\ entPrev.attemptCount > 0


\* C36: every job that a poll tick moved to RUNNING is eventually persisted as
\* SUCCEEDED, RETRY or FAILED, when no call in flight waits forever.
C36_RunningJobEventuallySettles ==
    \A n \in JobSlots :
        (n \in Rows /\ store[n].status = RUNNING)
            ~> (n \in Rows /\ store[n].status \in {SUCCEEDED, RETRY, FAILED})


----------------------------------------------------------------------------
(* The revision executeJob starts with *)

\* C37: while executeJob is at its first stage, the revision it holds agrees with
\* the row tryAcquireLock persisted in this tick: status RUNNING, the same
\* branchName and the same attemptCount.
C37_RevisionAgreesWithLockedRow ==
    \A n \in JobSlots :
        InStage(n, "create") =>
            /\ n \in Rows
            /\ store[n].status = RUNNING
            /\ exec[n].job.status = RUNNING
            /\ exec[n].job.branchName = store[n].branchName
            /\ exec[n].job.attemptCount = store[n].attemptCount


----------------------------------------------------------------------------
(* The attempt count under automatic processing *)

\* the RUNNING attempts job n has started: every successful tryAcquireLock is
\* followed by one executeJob call, which is in flight or has ended
RunningAttemptsStarted(n) == Len(ended[n]) + (IF exec[n] # NoExec THEN 1 ELSE 0)

\* C38: in every persisted state that polling reaches, a job's attemptCount is at
\* most MAX_ATTEMPTS and equals the number of RUNNING attempts the job has started.
C38_AttemptCountCountsRunningAttempts ==
    \A n \in Rows :
        /\ store[n].attemptCount <= MAX_ATTEMPTS
        /\ store[n].attemptCount = RunningAttemptsStarted(n)

\* an attempt was started and its executeJob call is over
C38_Witness ==
    \E n \in Rows :
        /\ store[n].attemptCount = 1
        /\ exec[n] = NoExec
        /\ Len(ended[n]) = 1
        /\ \A f \in fin : f.job # n


----------------------------------------------------------------------------
(* retryJob after the automatic retries are used up *)

\* C39: a job that markForRetry(reason, maxAttempts) moved to FAILED has
\* canRetry(maxAttempts) false, so retryJob with the same maxAttempts throws and
\* yields no new revision; retryJob returns only for a FAILED job whose
\* attemptCount is below maxAttempts, and what it returns is PENDING.
C39_RetryJobOnlyBelowCeiling ==
    /\ (entCall.op = "markForRetry" /\ ~entCall.thrown /\ ent.status = FAILED)
          => /\ ~canRetry(ent, entCall.arg)
             /\ ~retryJob(ent, entCall.arg).ok
    /\ (entCall.op = "retryJob" /\ ~entCall.thrown)
          => /\ entPrev.status = FAILED
             /\ entPrev.attemptCount < entCall.arg
             /\ ent.status = PENDING
    /\ (entCall.op = "retryJob" /\ entCall.thrown)
          => /\ ent = entPrev
             /\ ~(ent.status = FAILED /\ ent.attemptCount < entCall.arg)

\* retryJob threw for a job that markForRetry had moved to FAILED with the same
\* maxAttempts (the last log line is the one markForRetry wrote)
C39_Witness ==
    /\ entCall.op = "retryJob" /\ entCall.thrown
    /\ ent.status = FAILED
    /\ ent.logs # <<>>
    /\ ent.logs[Len(ent.logs)] =
          LogLine("ERROR (attempt n/m)", "e", ent.attemptCount, entCall.arg)


-----------------------------------------------------------------------------
(* The working directory of the process (C40 under SpecCwd) *)

====
